---------------------------- MODULE Spec2Model ----------------------------
(***************************************************************************)
(* A model of tikz2svg: the parser's foreach range expansion, the macro    *)
(* expander, the path walk of the renderer and the converter's statement   *)
(* visitor with its evaluation contexts and named-coordinate table.        *)
(*                                                                         *)
(* Numbers are integers.  Source-unit values (loop values, coordinates)    *)
(* are whole units; render-space values are hundredths of a pixel, so that *)
(* the default scale 28.35 is the integer 2835 and a value printed with    *)
(* the format .2f is the integer itself.                                   *)
(***************************************************************************)
EXTENDS Integers, Sequences, FiniteSets, TLC

(***************************************************************************)
(* Bounds of the model.                                                    *)
(***************************************************************************)
MaxNum == 8
MaxItems == 4

\* no range over 0..MaxNum has more values than this; the loops of the range
\* expansion stop being enabled beyond it, so that a loop that would not end
\* shows as a state that never returns
MaxRangeLen == MaxNum + 1

MaxText == 4
MaxMacros == 2
MaxSegments == 3
MaxBody == 2
MaxValues == 2
\* the number of statements of a picture at most
MaxStatements == 2
\* the number of coordinates of a path that is parsed at most
MaxPoints == 3
\* the number of digits of an argument at most
MaxDigits == 2

MaxCoordValues == 2

VARIABLES
    rItems,     \* foreach_value_list: the items handed over by the grammar
    rPc,        \* foreach_value_list: position in the function
    rStart,     \* foreach_value_list: start_val
    rEnd,       \* foreach_value_list: end_val
    rStep,      \* foreach_value_list: step
    rCurrent,   \* foreach_value_list: current
    rValues,    \* foreach_value_list: values (the list being generated)
    rResult,    \* foreach_value_list: the returned list
    mMacros,    \* MacroExpander.macros, in insertion order
    mInput,     \* the text handed to the outermost expand_all call
    mText,      \* expand_all: text of the innermost call
    mDepth,     \* expand_all: depth of the innermost call
    mPc,        \* expand_all: "call", "returned" or "raised"
    mResult,    \* what the outermost expand_all call returned
    mEnded,     \* why it returned: "depth" (the cap) or "fixpoint"
    mRun,       \* 1 for the first outermost call, 2 for a call on its result
    mFirst,     \* what the first call returned and why
    pWalker,    \* the path walk: "render_path" or "convert_path"
    pSegments,  \* the path walk: path.segments
    pIndex,     \* the path walk: index of the next segment
    pCurrent,   \* the path walk: current_pos, <<>> for None
    pData,      \* the path walk: path_data
    pClosed,    \* the path walk: path.closed
    pPc,        \* the path walk: "walk" or "returned"
    ast,        \* the converter: the statements converted
    entry,      \* the converter: "convert" or "expand", the call made
    contexts,   \* the converter: the EvaluationContext objects alive
    context,    \* the converter: self.context (an index of contexts)
    evaluator,  \* the converter: the context self.evaluator evaluates in
    resolver_evaluator, \* the converter: the context coord_resolver.evaluator evaluates in
    named_coordinates,  \* the converter: self.named_coordinates
    stack,      \* the converter: the calls of the visitor in progress
    cResult,    \* the converter: what the call returned
    cPc,        \* the converter: "idle", "run", "returned", "unwinding" or "raised"
    stores,     \* history: the named positions stored, in order
    finished,   \* history: the loop that completed last
    qCoord,     \* resolve: coord
    qCurrent,   \* resolve: current_pos, <<>> for None
    qNamed,     \* resolve: the resolver's named_coordinates
    qVariables, \* resolve: the variables of the context of the resolver's evaluator
    qResult,    \* resolve: the point returned
    qPc,        \* resolve: "call", "returned" or "raised"
    tChildren,  \* path: what the grammar hands over, coordinates and connectors
    tSegments,  \* path: the segments of the Path returned
    tData,      \* convert_path of that Path: the path data
    tPc,        \* path: "parse", "convert" or "done"
    eExpr,      \* evaluate: expr, one character after the other
    eVariables, \* evaluate: the variables of the evaluator's context
    eResult,    \* evaluate: the number returned
    ePc         \* evaluate: "call", "returned" or "raised"

rangeVars == <<rItems, rPc, rStart, rEnd, rStep, rCurrent, rValues, rResult>>

macroVars == <<mMacros, mInput, mText, mDepth, mPc, mResult, mEnded, mRun, mFirst>>

pathVars == <<pWalker, pSegments, pClosed, pIndex, pCurrent, pData, pPc>>

converterVars ==
    <<ast, entry, contexts, context, evaluator, resolver_evaluator,
      named_coordinates, stack, cResult, cPc, stores, finished>>

resolveVars == <<qCoord, qCurrent, qNamed, qVariables, qResult, qPc>>

parseVars == <<tChildren, tSegments, tData, tPc>>

evaluateVars == <<eExpr, eVariables, eResult, ePc>>

vars ==
    <<rangeVars, macroVars, pathVars, converterVars, resolveVars, parseVars,
      evaluateVars>>

\* the variables a component leaves alone

(***************************************************************************)
(* Items of a foreach value list (parser.py, foreach_item/foreach_value).  *)
(* A numeric item is the text of a number (float() accepts it), the item   *)
(* "..." is the range marker, and any other item (a macro reference such   *)
(* as \n, a pair a/b) is text that float() rejects.                        *)
(***************************************************************************)
NumItem(n) == [k |-> "num", n |-> n]
DotsItem == [k |-> "dots"]
\* float(str(item)) succeeds
IsFloat(item) == item.k = "num"

\* the value float(str(item))
Float(item) == item.n

\* for i, item in enumerate(items): if item == "...": dotdotdot_idx = i; break
\* (1-based here; 0 when there is no "...")
DotDotDotIdx(items) ==
    IF \E i \in 1..Len(items) : items[i] = DotsItem
    THEN CHOOSE i \in 1..Len(items) :
            /\ items[i] = DotsItem
            /\ \A j \in 1..(i - 1) : items[j] # DotsItem
    ELSE 0

\* [item for item in items if item != "..."]
RECURSIVE WithoutDots(_)
WithoutDots(items) ==
    IF items = <<>> THEN <<>>
    ELSE IF Head(items) = DotsItem THEN WithoutDots(Tail(items))
    ELSE <<Head(items)>> \o WithoutDots(Tail(items))

(***************************************************************************)
(* TikzTransformer.foreach_value_list, one action per stretch of code      *)
(* between two evaluations of a loop condition.                            *)
(***************************************************************************)
\* the "range" dict returned when the bounds cannot be converted:
\* {"range": True, "start": start, "end": end, "step": step}
RangeDict(start, end, step) ==
    [k |-> "range", start |-> start, end |-> end, step |-> step]

RangeReturn(result) ==
    /\ rPc' = "returned"
    /\ rResult' = result

\* entry of the function up to the first test of a while condition
RangeEntry ==
    LET
        \* the text "0" used when the end item is missing
        ZeroItem == NumItem(0)
        \* start, end of a range whose "..." is the second or the third item
        RangeStartItem(items) == items[1]
        RangeEndItem(items) ==
            IF DotDotDotIdx(items) = 2
            THEN (IF Len(items) > 2 THEN items[3] ELSE ZeroItem)
            ELSE (IF Len(items) > 3 THEN items[4] ELSE ZeroItem)
        \* step: 1 for a simple range; second - start for a stepped range, and 1
        \* when either of them is not a number (the except branch)
        RangeStep(items) ==
            IF DotDotDotIdx(items) = 2 THEN 1
            ELSE IF IsFloat(items[1]) /\ IsFloat(items[2])
                 THEN Float(items[2]) - Float(items[1])
                 ELSE 1
    IN
    /\ rPc = "entry"
    /\ LET idx == DotDotDotIdx(rItems) IN
       IF idx = 0 THEN
            \* simple list: return items
            /\ RangeReturn(rItems)
            /\ UNCHANGED <<rStart, rEnd, rStep, rCurrent, rValues>>
       ELSE IF idx \notin {2, 3} THEN
            \* unexpected position: the list without the marker
            /\ RangeReturn(WithoutDots(rItems))
            /\ UNCHANGED <<rStart, rEnd, rStep, rCurrent, rValues>>
       ELSE LET start == RangeStartItem(rItems)
                end == RangeEndItem(rItems)
                step == RangeStep(rItems)
            IN  IF ~(IsFloat(start) /\ IsFloat(end)) THEN
                    \* except: the range as a dict for later evaluation
                    /\ RangeReturn(<<RangeDict(start, end, step)>>)
                    /\ UNCHANGED <<rStart, rEnd, rStep, rCurrent, rValues>>
                ELSE
                    /\ rStart' = Float(start)
                    /\ rEnd' = Float(end)
                    /\ rStep' = step
                    /\ rCurrent' = Float(start)
                    /\ IF step > 0 THEN
                            /\ rPc' = "while_up"
                            /\ rValues' = <<>>
                            /\ UNCHANGED rResult
                       ELSE IF step < 0 THEN
                            /\ rPc' = "while_down"
                            /\ rValues' = <<>>
                            /\ UNCHANGED rResult
                       ELSE \* zero step: values.append(start_val); return
                            /\ rValues' = <<Float(start)>>
                            /\ RangeReturn(<<Float(start)>>)
    /\ UNCHANGED <<rItems, <<macroVars, pathVars, converterVars, resolveVars, parseVars, evaluateVars>>>>

\* a loop bound that leaves the end value out
UpConditionExclusive(current, end) == current < end

\* the condition of "while current <= end_val + 1e-10" (whole numbers: the
\* epsilon is below the unit)
UpCondition(current, end) == current <= end

\* the descending loop with the condition of the ascending one
DownConditionCopied(current, end) == current <= end

\* the condition of "while current >= end_val - 1e-10"
DownCondition(current, end) == current >= end

\* one evaluation of the condition of the ascending loop, and its body
RangeWhileUp ==
    /\ rPc = "while_up"
    /\ Len(rValues) <= MaxRangeLen
    /\ IF UpCondition(rCurrent, rEnd) THEN
            /\ rValues' = Append(rValues, rCurrent)
            /\ rCurrent' = rCurrent + rStep
            /\ UNCHANGED <<rPc, rResult>>
       ELSE
            /\ RangeReturn(rValues)
            /\ UNCHANGED <<rValues, rCurrent>>
    /\ UNCHANGED <<rItems, rStart, rEnd, rStep, <<macroVars, pathVars, converterVars, resolveVars, parseVars, evaluateVars>>>>

\* one evaluation of the condition of the descending loop, and its body
RangeWhileDown ==
    /\ rPc = "while_down"
    /\ Len(rValues) <= MaxRangeLen
    /\ IF DownCondition(rCurrent, rEnd) THEN
            /\ rValues' = Append(rValues, rCurrent)
            /\ rCurrent' = rCurrent + rStep
            /\ UNCHANGED <<rPc, rResult>>
       ELSE
            /\ RangeReturn(rValues)
            /\ UNCHANGED <<rValues, rCurrent>>
    /\ UNCHANGED <<rItems, rStart, rEnd, rStep, <<macroVars, pathVars, converterVars, resolveVars, parseVars, evaluateVars>>>>

\* the components a specification does not run stay as they are constructed
OthersIdle(running) ==
    /\ IF running = "range" THEN TRUE
       ELSE /\ rItems = <<>>
            /\ rPc = "idle"
            /\ rStart = 0
            /\ rEnd = 0
            /\ rStep = 0
            /\ rCurrent = 0
            /\ rValues = <<>>
            /\ rResult = <<>>
    /\ IF running = "macro" THEN TRUE
       ELSE /\ mMacros = <<>>
            /\ mInput = <<>>
            /\ mText = <<>>
            /\ mDepth = 0
            /\ mPc = "idle"
            /\ mResult = <<>>
            /\ mEnded = ""
            /\ mRun = 0
            /\ mFirst = [text |-> <<>>, ended |-> ""]
    /\ IF running = "path" THEN TRUE
       ELSE /\ pWalker = ""
            /\ pSegments = <<>>
            /\ pClosed = FALSE
            /\ pIndex = 0
            /\ pCurrent = <<>>
            /\ pData = <<>>
            /\ pPc = "idle"
    /\ IF running = "converter" THEN TRUE
       ELSE /\ ast = <<>>
            /\ entry = ""
            /\ contexts = <<>>
            /\ context = 0
            /\ evaluator = 0
            /\ resolver_evaluator = 0
            /\ named_coordinates = <<>>
            /\ stack = <<>>
            /\ cResult = <<>>
            /\ cPc = "idle"
            /\ stores = <<>>
            /\ finished = <<>>
    /\ IF running = "resolve" THEN TRUE
       ELSE /\ qCoord = <<>>
            /\ qCurrent = <<>>
            /\ qNamed = <<>>
            /\ qVariables = <<>>
            /\ qResult = <<>>
            /\ qPc = "idle"
    /\ IF running = "parse" THEN TRUE
       ELSE /\ tChildren = <<>>
            /\ tSegments = <<>>
            /\ tData = <<>>
            /\ tPc = "idle"
    /\ IF running = "evaluate" THEN TRUE
       ELSE /\ eExpr = <<>>
            /\ eVariables = <<>>
            /\ eResult = <<>>
            /\ ePc = "idle"

InitRange ==
    LET
        TextItem == [k |-> "text", s |-> "\\n"]
        Item == {NumItem(n) : n \in 0..MaxNum} \cup {DotsItem, TextItem}
        ItemLists == UNION {[1..len -> Item] : len \in 0..MaxItems}
    IN
    /\ OthersIdle("range")
    /\ rItems \in ItemLists
    /\ rPc = "entry"
    /\ rStart = 0
    /\ rEnd = 0
    /\ rStep = 0
    /\ rCurrent = 0
    /\ rValues = <<>>
    /\ rResult = <<>>

NextRange ==
    \/ RangeEntry
    \/ RangeWhileUp
    \/ RangeWhileDown

SpecRange == InitRange /\ [][NextRange]_vars

\* the loop is the only thing running: every enabled step is eventually taken
FairSpecRange == InitRange /\ [][NextRange]_vars /\ WF_vars(NextRange)

(***************************************************************************)
(* MacroExpander.  A text is a sequence of characters.                     *)
(***************************************************************************)
\* the backslash
BS == "\\"

\* max_depth, the default of MacroExpander.__init__
max_depth == 20

\* a result of a step that may raise
Ok(s) == [ok |-> TRUE, s |-> s]
Raise == [ok |-> FALSE, s |-> <<>>]

\* pat occurs in text at position i
OccursAt(text, i, pat) ==
    /\ i + Len(pat) - 1 <= Len(text)
    /\ SubSeq(text, i, i + Len(pat) - 1) = pat

\* the replacement text re.sub makes of the template repl (a macro body):
\* \\ is a backslash, \a and \b are control characters, a backslash before
\* any other ASCII letter, before a digit (a group the pattern does not
\* have) or at the end raises re.error, and a backslash before anything else
\* stays
RECURSIVE ParseTemplate(_)
ParseTemplate(repl) ==
    LET
        \* the characters chr(7) and chr(8), which re.sub writes for \a and \b in a
        \* replacement template
        BEL == "<BEL>"
        BSP == "<BSP>"
        \* ASCII letters and digits of the model's alphabet
        Letters == {"a", "b", "d"}
        Digits == {"1", "2"}
    IN
    IF repl = <<>> THEN Ok(<<>>)
    ELSE IF Head(repl) # BS THEN
        LET rest == ParseTemplate(Tail(repl))
        IN  IF rest.ok THEN Ok(<<Head(repl)>> \o rest.s) ELSE Raise
    ELSE IF Len(repl) = 1 THEN Raise
    ELSE LET c == repl[2]
             rest == ParseTemplate(SubSeq(repl, 3, Len(repl)))
         IN  IF c \in Digits THEN Raise
             ELSE IF c \in Letters \ {"a", "b"} THEN Raise
             ELSE IF ~rest.ok THEN Raise
             ELSE IF c = BS THEN Ok(<<BS>> \o rest.s)
             ELSE IF c = "a" THEN Ok(<<BEL>> \o rest.s)
             ELSE IF c = "b" THEN Ok(<<BSP>> \o rest.s)
             ELSE Ok(<<BS, c>> \o rest.s)

\* a replacement that is the body itself, character for character
LiteralTemplate(repl) == Ok(repl)

\* the pattern \\name(?![{\[]) matches at position i
SimpleMatchAt(text, i, name) ==
    /\ OccursAt(text, i, <<BS>> \o name)
    /\ LET next == i + Len(name) + 1
       IN  next <= Len(text) => text[next] \notin {"{", "["}

\* the pattern name(?![{\[]), which does not ask for the backslash
BareMatchAt(text, i, name) ==
    /\ OccursAt(text, i, name)
    /\ LET next == i + Len(name)
       IN  next <= Len(text) => text[next] \notin {"{", "["}

\* re.sub(pattern, body, text) for a macro without parameters: the matches
\* from left to right, the replacement is not scanned again
RECURSIVE SubSimpleFrom(_, _, _, _)
SubSimpleFrom(text, i, name, replacement) ==
    IF i > Len(text) THEN <<>>
    ELSE IF SimpleMatchAt(text, i, name)
         THEN replacement \o SubSimpleFrom(text, i + Len(name) + 1, name, replacement)
         ELSE <<text[i]>> \o SubSimpleFrom(text, i + 1, name, replacement)

SubSimple(text, macro) ==
    LET template == ParseTemplate(macro.body)
    IN  IF template.ok THEN Ok(SubSimpleFrom(text, 1, macro.name, template.s))
        ELSE Raise

\* str.replace(old, new)
RECURSIVE StrReplaceFrom(_, _, _, _)
StrReplaceFrom(s, i, old, new) ==
    IF i > Len(s) THEN <<>>
    ELSE IF OccursAt(s, i, old)
         THEN new \o StrReplaceFrom(s, i + Len(old), old, new)
         ELSE <<s[i]>> \o StrReplaceFrom(s, i + 1, old, new)

\* substitute_params: "#1", "#2", ... replaced in turn by the arguments
RECURSIVE SubstituteParams(_, _, _)
SubstituteParams(body, args, i) ==
    LET
        \* f"#{i}"
        ParamMarker == <<"#", IF i = 1 THEN "1" ELSE "2">>
    IN
    IF i > Len(args) THEN body
    ELSE SubstituteParams(StrReplaceFrom(body, 1, ParamMarker, args[i]), args, i + 1)

\* the index of the brace that closes the group \{([^{}]*)\} opening at j,
\* 0 when no such group starts at j
GroupEnd(text, j) ==
    IF j > Len(text) \/ text[j] # "{" THEN 0
    ELSE IF \E k \in (j + 1)..Len(text) : text[k] \in {"{", "}"}
         THEN LET k == CHOOSE k \in (j + 1)..Len(text) :
                            /\ text[k] \in {"{", "}"}
                            /\ \A l \in (j + 1)..(k - 1) : text[l] \notin {"{", "}"}
              IN  IF text[k] = "}" THEN k ELSE 0
         ELSE 0

\* n argument groups starting at j: the arguments and the position after them
RECURSIVE MatchGroups(_, _, _)
MatchGroups(text, j, n) ==
    IF n = 0 THEN [ok |-> TRUE, args |-> <<>>, next |-> j]
    ELSE LET e == GroupEnd(text, j)
         IN  IF e = 0 THEN [ok |-> FALSE, args |-> <<>>, next |-> j]
             ELSE LET rest == MatchGroups(text, e + 1, n - 1)
                  IN  [ok |-> rest.ok,
                       args |-> <<SubSeq(text, j + 1, e - 1)>> \o rest.args,
                       next |-> rest.next]

\* re.sub(full_pattern, substitute_params, text) for a macro with parameters
RECURSIVE SubParametricFrom(_, _, _)
SubParametricFrom(text, i, macro) ==
    IF i > Len(text) THEN <<>>
    ELSE LET m == IF OccursAt(text, i, <<BS>> \o macro.name)
                  THEN MatchGroups(text, i + Len(macro.name) + 1, macro.params)
                  ELSE [ok |-> FALSE, args |-> <<>>, next |-> i]
         IN  IF m.ok
             THEN SubstituteParams(macro.body, m.args, 1)
                      \o SubParametricFrom(text, m.next, macro)
             ELSE <<text[i]>> \o SubParametricFrom(text, i + 1, macro)

\* the loop "for name, macro in self.macros.items()" of expand_all from the
\* k-th macro on
RECURSIVE ExpandEach(_, _, _)
ExpandEach(macros, k, text) ==
    IF k > Len(macros) THEN Ok(text)
    ELSE IF macros[k].params = 0
         THEN LET r == SubSimple(text, macros[k])
              IN  IF r.ok THEN ExpandEach(macros, k + 1, r.s) ELSE Raise
         ELSE ExpandEach(macros, k + 1, SubParametricFrom(text, 1, macros[k]))

\* one invocation of expand_all(text, depth): it returns, it raises, or it
\* calls itself on the changed text
ExpandAll ==
    /\ mPc = "call"
    /\ IF mDepth >= max_depth THEN
            /\ mPc' = "returned"
            /\ mResult' = mText
            /\ mEnded' = "depth"
            /\ UNCHANGED <<mText, mDepth>>
       ELSE LET r == ExpandEach(mMacros, 1, mText)
            IN  IF ~r.ok THEN
                    /\ mPc' = "raised"
                    /\ UNCHANGED <<mText, mDepth, mResult, mEnded>>
                ELSE IF r.s # mText THEN
                    /\ mText' = r.s
                    /\ mDepth' = mDepth + 1
                    /\ UNCHANGED <<mPc, mResult, mEnded>>
                ELSE
                    /\ mPc' = "returned"
                    /\ mResult' = r.s
                    /\ mEnded' = "fixpoint"
                    /\ UNCHANGED <<mText, mDepth>>
    /\ UNCHANGED <<mMacros, mInput, mRun, mFirst>>
    /\ UNCHANGED <<rangeVars, pathVars, converterVars, resolveVars, parseVars, evaluateVars>>

\* expand_all called on the text the first call returned
ExpandAgain ==
    /\ mPc = "returned"
    /\ mRun = 1
    /\ mFirst' = [text |-> mResult, ended |-> mEnded]
    /\ mRun' = 2
    /\ mInput' = mResult
    /\ mText' = mResult
    /\ mDepth' = 0
    /\ mPc' = "call"
    /\ mResult' = <<>>
    /\ mEnded' = ""
    /\ UNCHANGED mMacros
    /\ UNCHANGED <<rangeVars, pathVars, converterVars, resolveVars, parseVars, evaluateVars>>

InitMacro ==
    LET
        Macro(name, params, body) == [name |-> name, params |-> params, body |-> body]
        \* the macro definitions the tables are made of:
        \*   \def\a{+}            \def\a{\\a+}          \def\a{\d}      \def\a{\b}
        \*   \newcommand{\a}[1]{\a{#1+}}                \newcommand{\a}[1]{#1}
        \*   \def\a{\\b+}         \def\b{+}             \def\b{\\a}
        MacroPool ==
            { Macro(<<"a">>, 0, <<"+">>),
              Macro(<<"a">>, 0, <<BS, BS, "a", "+">>),
              Macro(<<"a">>, 0, <<BS, "d">>),
              Macro(<<"a">>, 0, <<BS, "b">>),
              Macro(<<"a">>, 1, <<BS, "a", "{", "#", "1", "+", "}">>),
              Macro(<<"a">>, 1, <<"#", "1">>),
              Macro(<<"a">>, 0, <<BS, BS, "b", "+">>),
              Macro(<<"b">>, 0, <<"+">>),
              Macro(<<"b">>, 0, <<BS, BS, "a">>) }
        \* self.macros is a dict: one entry per name, in insertion order
        MacroTables ==
            {t \in UNION {[1..len -> MacroPool] : len \in 0..MaxMacros} :
                \A i, j \in 1..Len(t) : i # j => t[i].name # t[j].name}
        TextAlphabet == {BS, "a", "{", "}", "+"}
        Texts == UNION {[1..len -> TextAlphabet] : len \in 0..MaxText}
    IN
    /\ OthersIdle("macro")
    /\ mMacros \in MacroTables
    /\ mInput \in Texts
    /\ mText = mInput
    /\ mDepth = 0
    /\ mPc = "call"
    /\ mResult = <<>>
    /\ mEnded = ""
    /\ mRun = 1
    /\ mFirst = [text |-> <<>>, ended |-> ""]

NextMacro ==
    \/ ExpandAll
    \/ ExpandAgain

SpecMacro == InitMacro /\ [][NextMacro]_vars

(***************************************************************************)
(* Values.  A raw value of the AST is a Python number, a string holding an *)
(* expression, or a tuple; None is a value of its own.                     *)
(***************************************************************************)
None == [k |-> "none"]

\* an int or float object
PyNum(n) == [k |-> "pynum", n |-> n]

\* the string of a numeric literal, "1"
Lit(n) == [k |-> "str", form |-> "lit", n |-> n]

\* the string of a variable reference, "\i"
Ref(x) == [k |-> "str", form |-> "ref", x |-> x]

\* the string of a product, "\i*2"
Times(x, c) == [k |-> "str", form |-> "times", x |-> x, c |-> c]

IsStr(value) == value.k = "str"
IsNumber(value) == value.k = "pynum"

(***************************************************************************)
(* EvaluationContext.  The contexts live in a sequence; a context is       *)
(* referred to by its index, and parent 0 is None.  variables is the dict: *)
(* a function whose domain is the set of names that are set.               *)
(***************************************************************************)
EmptyDict == [n \in {} |-> None]

\* EvaluationContext(parent)
NewContext(parent) == [parent |-> parent, variables |-> EmptyDict]

\* d[name] = value
DictSet(d, name, value) ==
    [n \in DOMAIN d \cup {name} |-> IF n = name THEN value ELSE d[n]]

\* a write that lands in the parent of the context it is made on
SetVariableInParent(ctxs, c, name, value) ==
    LET target == IF ctxs[c].parent # 0 THEN ctxs[c].parent ELSE c
    IN  [ctxs EXCEPT ![target].variables = DictSet(@, name, value)]

\* EvaluationContext.set_variable (names are kept without the backslash)
SetVariable(ctxs, c, name, value) ==
    [ctxs EXCEPT ![c].variables = DictSet(@, name, value)]

\* a lookup that stops at the context it is made on
GetVariableOwnOnly(ctxs, c, name) ==
    IF name \in DOMAIN ctxs[c].variables THEN ctxs[c].variables[name] ELSE None

\* EvaluationContext.get_variable: the nearest binding on the parent chain
RECURSIVE GetVariable(_, _, _)
GetVariable(ctxs, c, name) ==
    IF name \in DOMAIN ctxs[c].variables THEN ctxs[c].variables[name]
    ELSE IF ctxs[c].parent # 0 THEN GetVariable(ctxs, ctxs[c].parent, name)
    ELSE None

\* a new context that has no parent
CreateOrphanContext(ctxs, c) == Append(ctxs, NewContext(0))

\* EvaluationContext.create_child_context: the contexts with the child added
\* (the child is the last one)
CreateChildContext(ctxs, c) == Append(ctxs, NewContext(c))

(***************************************************************************)
(* MathEvaluator.evaluate on the context c.  The result is a number, or    *)
(* the evaluation raises ValueError.                                       *)
(***************************************************************************)
Number(n) == [ok |-> TRUE, n |-> n]
ValueError == [ok |-> FALSE, n |-> 0]

\* _replace_variables followed by eval for one reference \x: the value of x
\* is written into the expression as text, and only the text of a number
\* evaluates; an unset variable stays as \x, which does not evaluate
EvalReference(ctxs, c, x) ==
    LET value == GetVariable(ctxs, c, x)
    IN  IF value = None THEN ValueError
        ELSE IF IsNumber(value) THEN Number(value.n)
        ELSE ValueError

Evaluate(ctxs, c, expr) ==
    IF expr.form = "lit" THEN Number(expr.n)
    ELSE IF expr.form = "ref" THEN EvalReference(ctxs, c, expr.x)
    ELSE LET r == EvalReference(ctxs, c, expr.x)
         IN  IF r.ok THEN Number(r.n * expr.c) ELSE ValueError

\* OptionProcessor.safe_evaluate / SVGConverter._safe_evaluate: the value to
\* bind, evaluated with the evaluator of context c when it is a string
SafeEvaluate(ctxs, c, value) ==
    IF ~IsStr(value) THEN value
    ELSE LET r == Evaluate(ctxs, c, value)
         IN  IF r.ok THEN PyNum(r.n) ELSE value

(***************************************************************************)
(* CoordinateTransformer.  Render-space numbers are hundredths of a pixel. *)
(***************************************************************************)
\* scale = 28.35, width = 500, height = 500: defaults of SVGConverter
scale == 2835
\* CoordinateTransformer(scale, width // 2, height // 2)
offset_x ==
    LET
        width == 500
    IN
            (width \div 2) * 100
offset_y ==
    LET
        height == 500
    IN
            (height \div 2) * 100

\* a transform that does not flip the Y axis
TikzToSvgNoFlip(x, y) == <<(x * scale) + offset_x, (y * scale) + offset_y>>

\* CoordinateTransformer.tikz_to_svg
TikzToSvg(x, y) == <<(x * scale) + offset_x, ((0 - y) * scale) + offset_y>>

\* cos and sin of a whole number of quarter turns
Cos(angle) ==
    LET a == angle % 360
    IN  IF a = 0 THEN 1 ELSE IF a = 180 THEN 0 - 1 ELSE 0

Sin(angle) ==
    LET a == angle % 360
    IN  IF a = 90 THEN 1 ELSE IF a = 270 THEN 0 - 1 ELSE 0

\* CoordinateTransformer.polar_to_cartesian (angles are multiples of 90)
PolarToCartesian(angle, radius) == <<radius * Cos(angle), radius * Sin(angle)>>

(***************************************************************************)
(* Coordinates and the CoordinateResolver.  resolver is the state the      *)
(* resolver reads: the contexts, the context its evaluator wraps, and the  *)
(* named-coordinate table.                                                 *)
(***************************************************************************)
\* the name of a coordinate or node without one (None; "if name" takes ""
\* and None alike)
NoName == ""

Coordinate(system, values, name, modifiers) ==
    [system |-> system, values |-> values, name |-> name, modifiers |-> modifiers]

NoModifiers == [n \in {} |-> ""]

Cartesian(x, y) == Coordinate("cartesian", <<x, y>>, NoName, NoModifiers)

Named(name) == Coordinate("named", <<>>, name, NoModifiers)

\* TikzTransformer.relative_coordinate around a cartesian coordinate
Relative(operator, x, y) ==
    Coordinate("relative", <<x, y>>, NoName,
               [n \in {"operator", "inner_system"} |->
                    IF n = "operator" THEN operator ELSE "cartesian"])

\* modifiers.get(key, default)
ModifierGet(coord, key, default) ==
    IF key \in DOMAIN coord.modifiers THEN coord.modifiers[key] ELSE default

Resolver(ctxs, c, named) == [ctxs |-> ctxs, context |-> c, named |-> named]

\* CoordinateResolver.eval_value
EvalValue(resolver, value) ==
    IF IsNumber(value) THEN value.n
    ELSE IF IsStr(value)
         THEN LET r == Evaluate(resolver.ctxs, resolver.context, value)
              IN  IF r.ok THEN r.n
                  ELSE 0    \* float(value) fails as well: 0.0
         ELSE 0

\* CoordinateResolver._resolve_cartesian
ResolveCartesian(resolver, coord) ==
    TikzToSvg(EvalValue(resolver, coord.values[1]), EvalValue(resolver, coord.values[2]))

\* CoordinateResolver._resolve_polar
ResolvePolar(resolver, coord) ==
    LET p == PolarToCartesian(EvalValue(resolver, coord.values[1]),
                              EvalValue(resolver, coord.values[2]))
    IN  TikzToSvg(p[1], p[2])

\* a lookup that falls back to the point (0, 0) of the render space
ResolveNamedRawOrigin(resolver, coord) ==
    IF coord.name # NoName /\ coord.name \in DOMAIN resolver.named
    THEN resolver.named[coord.name]
    ELSE <<0, 0>>

\* CoordinateResolver._resolve_named
ResolveNamed(resolver, coord) ==
    IF coord.name # NoName /\ coord.name \in DOMAIN resolver.named
    THEN resolver.named[coord.name]
    ELSE TikzToSvg(0, 0)

\* _resolve_relative with a current position: the offset by the values, read
\* as the inner system says
RelativeOffset(resolver, coord, current_pos) ==
    LET inner == ModifierGet(coord, "inner_system", "cartesian")
        d == IF inner = "cartesian"
             THEN <<EvalValue(resolver, coord.values[1]),
                    EvalValue(resolver, coord.values[2])>>
             ELSE IF inner = "polar"
             THEN PolarToCartesian(EvalValue(resolver, coord.values[1]),
                                   EvalValue(resolver, coord.values[2]))
             ELSE <<0, 0>>
    IN  <<current_pos[1] + d[1] * scale, current_pos[2] + (0 - d[2]) * scale>>

\* CoordinateResolver._resolve_relative; current_pos is <<>> for None
ResolveRelative(resolver, coord, current_pos) ==
    IF current_pos # <<>> THEN RelativeOffset(resolver, coord, current_pos)
    ELSE IF coord.values # <<>> THEN
        TikzToSvg(EvalValue(resolver, coord.values[1]), EvalValue(resolver, coord.values[2]))
    ELSE TikzToSvg(0, 0)

\* CoordinateResolver.resolve
Resolve(resolver, coord, current_pos) ==
    IF coord.system = "cartesian" THEN ResolveCartesian(resolver, coord)
    ELSE IF coord.system = "polar" THEN ResolvePolar(resolver, coord)
    ELSE IF coord.system = "named" THEN ResolveNamed(resolver, coord)
    ELSE IF coord.system = "relative" THEN ResolveRelative(resolver, coord, current_pos)
    ELSE TikzToSvg(0, 0)

(***************************************************************************)
(* CoordinateResolver.resolve called on its own: one call on a coordinate  *)
(* of any system, with any list of values and with or without a current   *)
(* position.                                                               *)
(***************************************************************************)
\* "coord.values[0]", "coord.values[1]" raise IndexError on a list with
\* fewer than two entries: the branches of resolve that index the values
ResolveRaises(coord, current_pos) ==
    IF coord.system \in {"cartesian", "polar"} THEN Len(coord.values) < 2
    ELSE IF coord.system = "relative" THEN
        IF current_pos # <<>>
        THEN /\ ModifierGet(coord, "inner_system", "cartesian") \in {"cartesian", "polar"}
             /\ Len(coord.values) < 2
        ELSE coord.values # <<>> /\ Len(coord.values) < 2
    ELSE FALSE

\* resolve(coord, current_pos) returns a point or raises
ResolveCall ==
    LET
        \* the resolver the call is made on
        QResolver ==
            Resolver(<<[parent |-> 0, variables |-> qVariables]>>, 1, qNamed)
    IN
    /\ qPc = "call"
    /\ IF ResolveRaises(qCoord, qCurrent)
       THEN /\ qPc' = "raised"
            /\ qResult' = <<>>
       ELSE /\ qPc' = "returned"
            /\ qResult' = Resolve(QResolver, qCoord, qCurrent)
    /\ UNCHANGED <<qCoord, qCurrent, qNamed, qVariables>>
    /\ UNCHANGED <<rangeVars, macroVars, pathVars, converterVars, parseVars, evaluateVars>>

InitResolve ==
    LET
        \* the values a coordinate may carry: strings that evaluate, a string that
        \* evaluates only where x is set, a number, and a value that is neither
        EntryValues == {Lit(1), Lit(2), Ref("x"), PyNum(1), None}
        \* the same for an angle, in quarter turns
        AngleValues == {Lit(0), Lit(90), PyNum(270), None}
        ValuesLists(first) ==
            {<<>>}
            \cup (IF MaxCoordValues >= 1 THEN {<<a>> : a \in first} ELSE {})
            \cup {<<a>> \o rest :
                    a \in first,
                    rest \in UNION {[1..len -> EntryValues] : len \in 1..(MaxCoordValues - 1)}}
        RelativeModifiers(inner_system) ==
            {NoModifiers}
            \cup {[n \in {"operator", "inner_system"} |->
                    IF n = "operator" THEN operator ELSE inner_system] :
                  operator \in {"+", "++"}}
        ResolvedCoordinates ==
            {Coordinate(system, values, NoName, NoModifiers) :
                system \in {"cartesian", "canvas"}, values \in ValuesLists(EntryValues)}
            \cup {Coordinate("polar", values, NoName, NoModifiers) :
                    values \in ValuesLists(AngleValues)}
            \cup {Coordinate("named", <<>>, name, NoModifiers) : name \in {NoName, "A", "B"}}
            \cup {Coordinate("relative", values, NoName, modifiers) :
                    values \in ValuesLists(EntryValues),
                    modifiers \in RelativeModifiers("cartesian") \cup RelativeModifiers("named")}
            \cup {Coordinate("relative", values, NoName, modifiers) :
                    values \in ValuesLists(AngleValues),
                    modifiers \in RelativeModifiers("polar") \ {NoModifiers}}
    IN
    /\ OthersIdle("resolve")
    /\ qCoord \in ResolvedCoordinates
    /\ qCurrent \in {<<>>, <<25000, 25000>>, <<27835, 22165>>}
    /\ qNamed \in {[n \in {} |-> <<>>], [n \in {"A"} |-> <<30670, 19330>>]}
    /\ qVariables \in {EmptyDict, DictSet(EmptyDict, "x", PyNum(3))}
    /\ qResult = <<>>
    /\ qPc = "call"

NextResolve == ResolveCall

SpecResolve == InitResolve /\ [][NextResolve]_vars

(***************************************************************************)
(* Path segments and the path walk (PathRenderer.render_path and           *)
(* SVGConverter.convert_path, which differ in the "move" operation only).  *)
(* A command is its letter and its numbers, e.g. "L 278.35 221.65" is      *)
(* Cmd("L", <<27835, 22165>>).                                             *)
(***************************************************************************)
\* a simple operation: the string op
Op(op) == [dict |-> FALSE, op |-> op]

\* an arc specification: {"format": format, "start_angle": ..., "end_angle":
\* ..., "radius": ...}
ArcSpec(format, start_angle, end_angle, radius) ==
    [k |-> "spec", format |-> format, start_angle |-> start_angle,
     end_angle |-> end_angle, radius |-> radius]

\* a structured operation {"_type": "arc", "spec": spec}; spec is None for an
\* operation without specification ("not arc_spec")
ArcOp(spec) == [dict |-> TRUE, type |-> "arc", spec |-> spec]

\* a structured operation {"_type": "controls", "points": points}
ControlsOp(points) == [dict |-> TRUE, type |-> "controls", points |-> points]

\* the options of a segment without any
NoOptions == [n \in {} |-> ""]

\* a segment with options: {"coordinate_name": name} for a point that
\* carries an inline coordinate label
PathSegmentWithOptions(operation, destination, options) ==
    [operation |-> operation, destination |-> destination, options |-> options]

\* PathSegment(operation=..., destination=...): options is {} by default
PathSegment(operation, destination) ==
    PathSegmentWithOptions(operation, destination, NoOptions)

Cmd(c, a) == [c |-> c, a |-> a]

Walk(data, current_pos) == [data |-> data, current_pos |-> current_pos]

\* a cursor update that takes every destination
UpdateCurrentPosAlways(destination, point, current_pos) == point

\* "Update current position": the resolved point, except after a relative
\* destination whose operator is "+"
UpdateCurrentPos(destination, point, current_pos) ==
    IF destination.system = "relative"
    THEN (IF ModifierGet(destination, "operator", "++") = "++"
          THEN point ELSE current_pos)
    ELSE point

\* every simple operation drawn as one line to the point
SimpleCommandsLineOnly(walker, op, point, current_pos) ==
    <<Cmd("L", <<point[1], point[2]>>)>>

\* the commands of a simple operation with a destination resolved to point
SimpleCommands(walker, op, point, current_pos) ==
    LET x == point[1]
        y == point[2]
    IN  IF op = "start" THEN <<Cmd("M", <<x, y>>)>>
        ELSE IF op = "move" /\ walker = "render_path" THEN <<Cmd("M", <<x, y>>)>>
        ELSE IF op = "--" THEN <<Cmd("L", <<x, y>>)>>
        ELSE IF op = ".." THEN
            \* the paths walked keep the midpoint on a whole hundredth
            IF current_pos # <<>>
            THEN <<Cmd("Q", <<(current_pos[1] + x) \div 2, (current_pos[2] + y) \div 2, x, y>>)>>
            ELSE <<Cmd("L", <<x, y>>)>>
        ELSE IF op \in {"|-", "-|"} THEN
            IF current_pos # <<>>
            THEN (IF op = "|-"
                  THEN <<Cmd("L", <<x, current_pos[2]>>), Cmd("L", <<x, y>>)>>
                  ELSE <<Cmd("L", <<current_pos[1], y>>), Cmd("L", <<x, y>>)>>)
            ELSE <<Cmd("L", <<x, y>>)>>
        ELSE IF op = "rectangle" THEN
            IF current_pos # <<>>
            THEN <<Cmd("L", <<x, current_pos[2]>>), Cmd("L", <<x, y>>),
                   Cmd("L", <<current_pos[1], y>>), Cmd("Z", <<>>)>>
            ELSE <<>>
        ELSE IF op = "grid" THEN
            \* _render_grid: one M/L pair per vertical line, then one per
            \* horizontal line, a line every scale * 28.35 from the smaller
            \* bound while it is at most the larger bound + 0.01
            IF current_pos # <<>>
            THEN LET x_start == IF current_pos[1] < x THEN current_pos[1] ELSE x
                     x_end == IF current_pos[1] < x THEN x ELSE current_pos[1]
                     y_start == IF current_pos[2] < y THEN current_pos[2] ELSE y
                     y_end == IF current_pos[2] < y THEN y ELSE current_pos[2]
                     \* the number of steps that fit and the k-th line, in
                     \* hundredths of a hundredth
                     Steps(lo, hi) == (((hi - lo) * 100) + 100) \div (scale * scale)
                     Line(lo, k) == ((2 * ((lo * 100) + (k * scale * scale))) + 100) \div 200
                 IN  [i \in 1..(2 * (Steps(x_start, x_end) + 1)) |->
                        IF i % 2 = 1
                        THEN Cmd("M", <<Line(x_start, (i - 1) \div 2), y_start>>)
                        ELSE Cmd("L", <<Line(x_start, (i - 1) \div 2), y_end>>)]
                     \o
                     [i \in 1..(2 * (Steps(y_start, y_end) + 1)) |->
                        IF i % 2 = 1
                        THEN Cmd("M", <<x_start, Line(y_start, (i - 1) \div 2)>>)
                        ELSE Cmd("L", <<x_end, Line(y_start, (i - 1) \div 2)>>)]
            ELSE <<>>
        ELSE <<Cmd("L", <<x, y>>)>>

\* the arc command once the specification and the cursor are known to be
\* there.  radius is scaled once; in the angles format the offset of the end
\* point is scaled again
ArcCommand(resolver, arc_spec, current_pos) ==
    LET
        \* a / b rounded to the nearest integer, as the format .2f rounds
        RoundDiv(a, b) == ((2 * a) + b) \div (2 * b)
    IN
    LET start_angle == EvalValue(resolver, arc_spec.start_angle)
        end_angle == EvalValue(resolver, arc_spec.end_angle)
        radius == EvalValue(resolver, arc_spec.radius) * scale
        span == IF end_angle > start_angle THEN end_angle - start_angle
                ELSE start_angle - end_angle
        large_arc == IF span > 180 THEN 1 ELSE 0
    IN  IF arc_spec.format = "angles" THEN
            LET dx == radius * (Cos(end_angle) - Cos(start_angle))
                dy == radius * (Sin(end_angle) - Sin(start_angle))
                end_x == RoundDiv((current_pos[1] * 100) + (dx * scale), 100)
                end_y == RoundDiv((current_pos[2] * 100) - (dy * scale), 100)
                sweep == IF end_angle > start_angle THEN 1 ELSE 0
            IN  <<Cmd("A", <<radius, radius, 0, large_arc, sweep, end_x, end_y>>)>>
        ELSE
            LET end_x == current_pos[1] + (radius * Cos(end_angle))
                end_y == current_pos[2] - (radius * Sin(end_angle))
            IN  <<Cmd("A", <<radius, radius, 0, large_arc, 1, end_x, end_y>>)>>

\* an arc that takes the origin for a missing cursor
RenderArcFromOrigin(resolver, arc_spec, current_pos) ==
    IF arc_spec = None THEN <<>>
    ELSE ArcCommand(resolver, arc_spec,
                    IF current_pos = <<>> THEN TikzToSvg(0, 0) ELSE current_pos)

\* PathRenderer.render_arc / SVGConverter.convert_arc: "" (no command)
\* without specification or without cursor
RenderArc(resolver, arc_spec, current_pos) ==
    IF arc_spec = None \/ current_pos = <<>> THEN <<>>
    ELSE ArcCommand(resolver, arc_spec, current_pos)

\* one iteration of "for i, segment in enumerate(path.segments)"
RenderSegment(walker, resolver, segment, current_pos) ==
    LET
        \* _render_circle_as_path
        CircleCommands(center, radius) ==
            <<Cmd("M", <<center[1] - radius, center[2]>>),
              Cmd("A", <<radius, radius, 0, 1, 0, center[1] + radius, center[2]>>),
              Cmd("A", <<radius, radius, 0, 1, 0, center[1] - radius, center[2]>>)>>
    IN
    LET op == segment.operation
        dest == segment.destination
    IN  IF ~op.dict /\ op.op = "cycle" THEN
            Walk(<<Cmd("Z", <<>>)>>, current_pos)
        ELSE IF op.dict THEN
            IF op.type = "arc" THEN
                \* the cursor is not moved to the end of the arc
                Walk(RenderArc(resolver, op.spec, current_pos), current_pos)
            ELSE IF op.type = "circle" THEN
                LET center == IF current_pos # <<>> /\ dest # None
                              THEN Resolve(resolver, dest, current_pos)
                              ELSE IF current_pos # <<>> THEN current_pos
                              ELSE TikzToSvg(0, 0)
                    radius == EvalValue(resolver, op.radius) * scale
                IN  Walk(CircleCommands(center, radius), center)
            ELSE IF op.type = "controls" /\ dest # None /\ current_pos # <<>> THEN
                LET point == Resolve(resolver, dest, current_pos)
                    c == [i \in 1..Len(op.points) |->
                            Resolve(resolver, op.points[i], current_pos)]
                IN  IF Len(c) = 2
                    THEN Walk(<<Cmd("C", c[1] \o c[2] \o point)>>, point)
                    ELSE IF Len(c) = 1
                    THEN Walk(<<Cmd("Q", c[1] \o point)>>, point)
                    ELSE Walk(<<>>, current_pos)
            ELSE Walk(<<>>, current_pos)
        ELSE IF dest # None THEN
            LET point == Resolve(resolver, dest, current_pos)
            IN  Walk(SimpleCommands(walker, op.op, point, current_pos),
                     UpdateCurrentPos(dest, point, current_pos))
        ELSE Walk(<<>>, current_pos)

\* the segments of the paths that are walked
S(n) == Lit(n)

\* the resolver of a renderer on its own: an evaluator on an empty context,
\* no named coordinate
PathResolver == Resolver(<<NewContext(0)>>, 1, [n \in {} |-> <<>>])

\* the body of the loop over path.segments for the next segment
RenderPathStep ==
    /\ pPc = "walk"
    /\ pIndex <= Len(pSegments)
    /\ LET w == RenderSegment(pWalker, PathResolver, pSegments[pIndex], pCurrent)
       IN  /\ pData' = pData \o w.data
           /\ pCurrent' = w.current_pos
    /\ pIndex' = pIndex + 1
    /\ UNCHANGED <<pWalker, pSegments, pClosed, pPc>>
    /\ UNCHANGED <<rangeVars, macroVars, converterVars, resolveVars, parseVars, evaluateVars>>

\* return " ".join(path_data); convert_path closes a closed path first
RenderPathReturn ==
    /\ pPc = "walk"
    /\ pIndex > Len(pSegments)
    /\ pData' = IF pWalker = "convert_path" /\ pClosed
                THEN Append(pData, Cmd("Z", <<>>)) ELSE pData
    /\ pPc' = "returned"
    /\ UNCHANGED <<pWalker, pSegments, pClosed, pIndex, pCurrent>>
    /\ UNCHANGED <<rangeVars, macroVars, converterVars, resolveVars, parseVars, evaluateVars>>

InitPath ==
    LET
        \* a structured operation {"_type": "circle", "spec": {"radius": radius}}
        CircleOp(radius) == [dict |-> TRUE, type |-> "circle", radius |-> radius]
        FirstSegments ==
            { PathSegment(Op("start"), Cartesian(S(0), S(0))),
              PathSegment(Op("start"), Relative("+", S(1), S(0))),
              PathSegment(Op("start"), Relative("++", S(1), S(0))),
              PathSegment(CircleOp(S(1)), None),
              PathSegment(ArcOp(ArcSpec("angles", S(0), S(90), S(1))), None) }
        LaterSegments ==
            { PathSegment(Op("--"), d) :
                d \in { Cartesian(S(1), S(1)), Cartesian(S(2), S(-1)),
                        Relative("++", S(1), S(0)), Relative("++", S(0), S(1)),
                        Relative("+", S(1), S(0)), Relative("+", S(0), S(1)) } }
            \cup
            { PathSegment(CircleOp(S(1)), d) :
                d \in { Relative("+", S(1), S(0)), Relative("++", S(1), S(0)), None } }
            \cup
            { PathSegment(ControlsOp(<<Cartesian(S(1), S(1))>>), Relative("+", S(0), S(1))),
              PathSegment(ControlsOp(<<Cartesian(S(1), S(0)), Cartesian(S(0), S(1))>>),
                          Relative("++", S(0), S(1))),
              PathSegment(Op("move"), Cartesian(S(1), S(1))),
              PathSegment(Op(".."), Relative("+", S(0), S(2))),
              PathSegment(Op("|-"), Relative("++", S(1), S(0))),
              PathSegment(Op("-|"), Cartesian(S(2), S(-1))),
              PathSegment(Op("grid"), Cartesian(S(1), S(1))),
              PathSegment(Op("rectangle"), Relative("+", S(1), S(0))),
              PathSegment(Op("cycle"), None) }
            \cup
            { PathSegment(ArcOp(spec), Relative("+", S(1), S(0))) :
                spec \in { ArcSpec("angles", S(0), S(90), S(1)),
                           ArcSpec("angles", S(180), S(-90), S(1)),
                           ArcSpec("options", S(0), S(270), S(1)),
                           None } }
        Paths ==
            { <<f>> \o rest :
                f \in FirstSegments,
                rest \in UNION {[1..len -> LaterSegments] : len \in 0..(MaxSegments - 1)} }
    IN
    /\ OthersIdle("path")
    /\ pWalker \in {"render_path", "convert_path"}
    /\ pSegments \in Paths
    /\ pClosed \in BOOLEAN
    /\ pIndex = 1
    /\ pCurrent = <<>>
    /\ pData = <<>>
    /\ pPc = "walk"

NextPath ==
    \/ RenderPathStep
    \/ RenderPathReturn

SpecPath == InitPath /\ [][NextPath]_vars

\* the whole walk of a path: convert_path / render_path as a function
RECURSIVE WalkFrom(_, _, _, _, _)
WalkFrom(walker, resolver, segments, index, walk) ==
    IF index > Len(segments) THEN walk
    ELSE LET w == RenderSegment(walker, resolver, segments[index], walk.current_pos)
         IN  WalkFrom(walker, resolver, segments, index + 1,
                      Walk(walk.data \o w.data, w.current_pos))

\* SVGConverter.convert_path of a path that is not closed
ConvertPath(resolver, segments) ==
    WalkFrom("convert_path", resolver, segments, 1, Walk(<<>>, <<>>)).data

(***************************************************************************)
(* Statements of the AST (ast_nodes.py).                                   *)
(***************************************************************************)
\* DrawStatement(command="draw", path=Path(segments=path), options=options);
\* options is a dict, the value of "arrow" the text of the arrow
\* specification, one character after the other
DrawStatement(path, options) ==
    [type |-> "DrawStatement", path |-> path, options |-> options]

Node(name, position) == [type |-> "Node", name |-> name, position |-> position]

CoordinateDefinition(name, position) ==
    [type |-> "CoordinateDefinition", name |-> name, position |-> position]

Scope(statements) == [type |-> "Scope", statements |-> statements]

Layer(name, statements) ==
    [type |-> "Layer", name |-> name, statements |-> statements]

ForeachLoop(variables, values, evaluate_clause, body) ==
    [type |-> "ForeachLoop", variables |-> variables, values |-> values,
     evaluate_clause |-> evaluate_clause, body |-> body]

MacroDefinition(name, body) ==
    [type |-> "MacroDefinition", name |-> name, body |-> body]

\* evaluate_clause: {"target": target, "expression": expression}
EvaluateClause(target, expression) ==
    [k |-> "clause", target |-> target, expression |-> expression]

(***************************************************************************)
(* The statements, loops and pictures that are converted.                  *)
(***************************************************************************)
\* \draw (\i,0) -- (\d,1);
DrawI ==
    DrawStatement(<<PathSegment(Op("start"), Cartesian(Ref("i"), S(0))),
                    PathSegment(Op("--"), Cartesian(Ref("d"), S(1)))>>, NoOptions)

\* \node (A) at (2,2) {};
NodeA == Node("A", Cartesian(S(2), S(2)))

\* \def\outer{9}
DefOuterInside == MacroDefinition("outer", Lit(9))

\* \foreach \j in {3,4} { \draw (\i,0) -- (\d,1); \def\t{\j*2} }
InnerLoop ==
    ForeachLoop(<<"j">>, <<PyNum(3), Lit(4)>>, None,
                <<DrawI, MacroDefinition("t", Times("j", 2))>>)

(***************************************************************************)
(* SVGConverter.  The calls of the visitor in progress are a stack of      *)
(* frames, innermost last: convert, visit_scope and visit_foreach_loop     *)
(* (or ForeachLoopExpander.expand) each hold their own elements list and   *)
(* their position in their statements.  A rendered string is the sequence  *)
(* of its fragments, so that "\n  ".join is concatenation.                 *)
(***************************************************************************)
\* a string of SVG: its fragments in order; "" has none
Svg(atoms) == [k |-> "svg", atoms |-> atoms]

\* "\n  ".join(elements)
RECURSIVE Join(_)
Join(elements) ==
    IF elements = <<>> THEN <<>>
    ELSE Head(elements).atoms \o Join(Tail(elements))

Frame(kind, statements, loop, before) ==
    [kind |-> kind,               \* "convert", "scope", "foreach" or "expand"
     statements |-> statements,   \* the statements the call iterates over
     loop |-> loop,               \* the ForeachLoop of a loop call
     i |-> 0,                     \* the number of values taken so far
     j |-> 1,                     \* the index of the next statement
     phase |-> IF kind \in {"foreach", "expand"} THEN "next" ELSE "body",
     elements |-> <<>>,           \* elements
     parent_context |-> 0,        \* parent_context
     parent_evaluator |-> 0,      \* parent_evaluator
     before |-> before,           \* history: the variables of the context at the call
     bound |-> <<>>,              \* history: the loop variable in each iteration
     trace |-> <<>>]              \* history: <<i, j>> of each element appended

Top == stack[Len(stack)]

\* the call on top is about to visit a statement
Visiting == cPc = "run" /\ Top.phase = "body" /\ Top.j <= Len(Top.statements)

Current == Top.statements[Top.j]

\* the coord_resolver as the converter built it
CoordResolver == Resolver(contexts, resolver_evaluator, named_coordinates)

\* "element = self.visit_statement(stmt); if element: elements.append(element)"
\* in the calling frame
Appended(frame, element) ==
    LET
        \* "if element:" - neither None nor ""
        Truthy == element.k = "svg" /\ element.atoms # <<>>
    IN
    [frame EXCEPT !.j = @ + 1,
                  !.elements = IF Truthy THEN Append(@, element) ELSE @,
                  !.trace = IF Truthy THEN Append(@, <<frame.i, frame.j>>) ELSE @]

\* the stack after the statement on top returned element
Returned(element) == [stack EXCEPT ![Len(stack)] = Appended(@, element)]

\* a store that keeps the first position of a name
StoreNamedOnce(named, name, position) ==
    IF name \in DOMAIN named THEN named
    ELSE [n \in DOMAIN named \cup {name} |-> IF n = name THEN position ELSE named[n]]

\* self.named_coordinates[name] = position
StoreNamed(named, name, position) ==
    [n \in DOMAIN named \cup {name} |-> IF n = name THEN position ELSE named[n]]

\* visit_draw_statement
VisitDrawStatement ==
    LET
        \* "sub in text" for two strings given one character after the other
        Contains(text, sub) ==
            \E i \in 0..(Len(text) - Len(sub)) : SubSeq(text, i + 1, i + Len(sub)) = sub
        \* "Check for arrows" in visit_draw_statement: whether the element refers to
        \* marker-start="url(#arrow-start)" and to marker-end="url(#arrow-end)"
        Markers(options) ==
            LET arrow_spec == IF "arrow" \in DOMAIN options THEN options["arrow"] ELSE <<>>
            IN  [start |-> arrow_spec # <<>> /\ Contains(arrow_spec, <<"<", "-">>),
                 end |-> arrow_spec # <<>> /\ Contains(arrow_spec, <<"-", ">">>)]
        \* convert_path raises where resolve does: on the first segment, from
        \* the i-th on with the cursor at current_pos, whose destination is
        \* resolved and cannot be
        RECURSIVE PathRaises(_, _)
        PathRaises(i, current_pos) ==
            IF i > Len(Current.path) THEN FALSE
            ELSE LET segment == Current.path[i]
                     resolved ==
                        /\ segment.destination # None
                        /\ IF segment.operation.dict
                           THEN /\ segment.operation.type \in {"circle", "controls"}
                                /\ current_pos # <<>>
                           ELSE segment.operation.op # "cycle"
                 IN  IF resolved /\ ResolveRaises(segment.destination, current_pos)
                     THEN TRUE
                     ELSE PathRaises(i + 1, RenderSegment("convert_path", CoordResolver,
                                                          segment, current_pos).current_pos)
    IN
    /\ Visiting
    /\ Current.type = "DrawStatement"
    /\ IF PathRaises(1, <<>>)
       THEN /\ cPc' = "unwinding"
            /\ UNCHANGED stack
       ELSE /\ stack' = Returned(Svg(<<[el |-> "path",
                                        d |-> ConvertPath(CoordResolver, Current.path),
                                        marker_start |-> Markers(Current.options).start,
                                        marker_end |-> Markers(Current.options).end]>>))
            /\ UNCHANGED cPc
    /\ UNCHANGED <<ast, entry, contexts, context, evaluator, resolver_evaluator,
                   named_coordinates, cResult, stores, finished>>
    /\ UNCHANGED <<rangeVars, macroVars, pathVars, resolveVars, parseVars, evaluateVars>>

\* visit_node
VisitNode ==
    /\ Visiting
    /\ Current.type = "Node"
    /\ IF Current.position # None /\ ResolveRaises(Current.position, <<>>)
       THEN \* resolve raises, and so does visit_node
            /\ cPc' = "unwinding"
            /\ UNCHANGED <<named_coordinates, stores, stack>>
       ELSE LET position == IF Current.position # None
                            THEN Resolve(CoordResolver, Current.position, <<>>)
                            ELSE TikzToSvg(0, 0)
            IN  /\ IF Current.name # NoName
                   THEN /\ named_coordinates' =
                                StoreNamed(named_coordinates, Current.name, position)
                        /\ stores' = Append(stores, <<Current.name, position>>)
                   ELSE UNCHANGED <<named_coordinates, stores>>
                /\ stack' = Returned(Svg(<<[el |-> "text", at |-> position]>>))
                /\ UNCHANGED cPc
    /\ UNCHANGED <<ast, entry, contexts, context, evaluator, resolver_evaluator,
                   cResult, finished>>
    /\ UNCHANGED <<rangeVars, macroVars, pathVars, resolveVars, parseVars, evaluateVars>>

\* visit_coordinate_definition
VisitCoordinateDefinition ==
    /\ Visiting
    /\ Current.type = "CoordinateDefinition"
    /\ IF Current.position # None /\ ResolveRaises(Current.position, <<>>)
       THEN \* resolve raises, and so does visit_coordinate_definition
            /\ cPc' = "unwinding"
            /\ UNCHANGED <<named_coordinates, stores, stack>>
       ELSE /\ IF Current.position # None
               THEN LET pos == Resolve(CoordResolver, Current.position, <<>>)
                    IN  /\ named_coordinates' =
                                StoreNamed(named_coordinates, Current.name, pos)
                        /\ stores' = Append(stores, <<Current.name, pos>>)
               ELSE UNCHANGED <<named_coordinates, stores>>
            /\ stack' = Returned(None)
            /\ UNCHANGED cPc
    /\ UNCHANGED <<ast, entry, contexts, context, evaluator, resolver_evaluator,
                   cResult, finished>>
    /\ UNCHANGED <<rangeVars, macroVars, pathVars, resolveVars, parseVars, evaluateVars>>

\* visit_macro_definition
VisitMacroDefinition ==
    /\ Visiting
    /\ Current.type = "MacroDefinition"
    /\ LET r == Evaluate(contexts, evaluator, Current.body)
       IN  contexts' = SetVariable(contexts, context, Current.name,
                                   IF r.ok THEN PyNum(r.n) ELSE Current.body)
    /\ stack' = Returned(None)
    /\ UNCHANGED <<ast, entry, context, evaluator, resolver_evaluator,
                   named_coordinates, cResult, cPc, stores, finished>>
    /\ UNCHANGED <<rangeVars, macroVars, pathVars, resolveVars, parseVars, evaluateVars>>

\* visit_scope is called
EnterScope ==
    /\ Visiting
    /\ Current.type = "Scope"
    /\ stack' = Append(stack, Frame("scope", Current.statements, None,
                                    contexts[context].variables))
    /\ UNCHANGED <<ast, entry, contexts, context, evaluator, resolver_evaluator,
                   named_coordinates, cResult, cPc, stores, finished>>
    /\ UNCHANGED <<rangeVars, macroVars, pathVars, resolveVars, parseVars, evaluateVars>>

\* visit_scope returns: "" without elements, else the group
LeaveScope ==
    /\ cPc = "run"
    /\ Top.kind = "scope"
    /\ Top.j > Len(Top.statements)
    /\ LET group == IF Top.elements = <<>> THEN Svg(<<>>)
                    ELSE Svg(<<[el |-> "g", content |-> Join(Top.elements)]>>)
           callers == SubSeq(stack, 1, Len(stack) - 1)
       IN  stack' = [callers EXCEPT ![Len(callers)] = Appended(@, group)]
    /\ UNCHANGED <<ast, entry, contexts, context, evaluator, resolver_evaluator,
                   named_coordinates, cResult, cPc, stores, finished>>
    /\ UNCHANGED <<rangeVars, macroVars, pathVars, resolveVars, parseVars, evaluateVars>>

\* visit_layer is called
EnterLayer ==
    /\ Visiting
    /\ Current.type = "Layer"
    /\ stack' = Append(stack, Frame("layer", Current.statements, None,
                                    contexts[context].variables))
    /\ UNCHANGED <<ast, entry, contexts, context, evaluator, resolver_evaluator,
                   named_coordinates, cResult, cPc, stores, finished>>
    /\ UNCHANGED <<rangeVars, macroVars, pathVars, resolveVars, parseVars, evaluateVars>>

\* visit_layer returns: "" without elements, else the group
LeaveLayer ==
    /\ cPc = "run"
    /\ Top.kind = "layer"
    /\ Top.j > Len(Top.statements)
    /\ LET group == IF Top.elements = <<>> THEN Svg(<<>>)
                    ELSE Svg(<<[el |-> "g", content |-> Join(Top.elements)]>>)
           callers == SubSeq(stack, 1, Len(stack) - 1)
       IN  stack' = [callers EXCEPT ![Len(callers)] = Appended(@, group)]
    /\ UNCHANGED <<ast, entry, contexts, context, evaluator, resolver_evaluator,
                   named_coordinates, cResult, cPc, stores, finished>>
    /\ UNCHANGED <<rangeVars, macroVars, pathVars, resolveVars, parseVars, evaluateVars>>

\* visit_foreach_loop is called
EnterForeachLoop ==
    /\ Visiting
    /\ Current.type = "ForeachLoop"
    /\ stack' = Append(stack, Frame("foreach", Current.body, Current,
                                    contexts[context].variables))
    /\ UNCHANGED <<ast, entry, contexts, context, evaluator, resolver_evaluator,
                   named_coordinates, cResult, cPc, stores, finished>>
    /\ UNCHANGED <<rangeVars, macroVars, pathVars, resolveVars, parseVars, evaluateVars>>

\* "Set loop variable(s)": the contexts after the variables of the loop are
\* set in child from value, each evaluated with the parent's evaluator
SetLoopVariables(ctxs, child, parent_evaluator, loop, value) ==
    IF Len(loop.variables) = 1 THEN
        SetVariable(ctxs, child, loop.variables[1],
                    SafeEvaluate(ctxs, parent_evaluator, value))
    ELSE IF Len(loop.variables) > 1 /\ value.k = "pair" THEN
        LET first == SetVariable(ctxs, child, loop.variables[1],
                                 SafeEvaluate(ctxs, parent_evaluator, value.a))
        IN  SetVariable(first, child, loop.variables[2],
                        SafeEvaluate(first, parent_evaluator, value.b))
    ELSE ctxs

\* a clause that sets the target to 0 when it does not evaluate
HandleEvaluateClauseDefault(ctxs, child, clause) ==
    IF clause = None THEN ctxs
    ELSE LET r == Evaluate(ctxs, child, clause.expression)
         IN  SetVariable(ctxs, child, clause.target, PyNum(IF r.ok THEN r.n ELSE 0))

\* "Handle evaluate clause": a clause that does not evaluate sets nothing
HandleEvaluateClause(ctxs, child, clause) ==
    IF clause = None THEN ctxs
    ELSE LET r == Evaluate(ctxs, child, clause.expression)
         IN  IF r.ok THEN SetVariable(ctxs, child, clause.target, PyNum(r.n))
             ELSE ctxs

\* the values of a loop taken last to first
LoopValueReversed(loop, i) == loop.values[Len(loop.values) + 1 - i]

\* "for value in loop.values": the i-th value
LoopValue(loop, i) == loop.values[i]

\* the head of an iteration: the child context and its evaluator are made and
\* the variables set
BeginIteration ==
    /\ cPc = "run"
    /\ Top.kind \in {"foreach", "expand"}
    /\ Top.phase = "next"
    /\ Top.i < Len(Top.loop.values)
    /\ LET value == LoopValue(Top.loop, Top.i + 1)
           created == CreateChildContext(contexts, context)
           child == Len(created)
           set == SetLoopVariables(created, child, evaluator, Top.loop, value)
       IN  /\ contexts' = HandleEvaluateClause(set, child, Top.loop.evaluate_clause)
           /\ context' = child
           /\ evaluator' = child
           /\ stack' = [stack EXCEPT ![Len(stack)] =
                            [@ EXCEPT !.i = @ + 1, !.j = 1, !.phase = "body",
                                      !.parent_context = context,
                                      !.parent_evaluator = evaluator,
                                      !.bound = Append(@, GetVariable(set, child,
                                                         Top.loop.variables[1]))]]
    /\ UNCHANGED <<ast, entry, resolver_evaluator, named_coordinates, cResult, cPc,
                   stores, finished>>
    /\ UNCHANGED <<rangeVars, macroVars, pathVars, resolveVars, parseVars, evaluateVars>>

\* "finally": the parent context and evaluator are restored; nothing refers
\* to the child context any more
EndIteration ==
    /\ cPc = "run"
    /\ Top.kind \in {"foreach", "expand"}
    /\ Top.phase = "body"
    /\ Top.j > Len(Top.statements)
    /\ context' = Top.parent_context
    /\ evaluator' = Top.parent_evaluator
    /\ contexts' = SubSeq(contexts, 1, Len(contexts) - 1)
    /\ stack' = [stack EXCEPT ![Len(stack)].phase = "next"]
    /\ UNCHANGED <<ast, entry, resolver_evaluator, named_coordinates, cResult, cPc,
                   stores, finished>>
    /\ UNCHANGED <<rangeVars, macroVars, pathVars, resolveVars, parseVars, evaluateVars>>

\* an exception that leaves every call without restoring anything
UnwindWithoutRestore ==
    /\ cPc = "unwinding"
    /\ stack' = SubSeq(stack, 1, Len(stack) - 1)
    /\ cPc' = IF Len(stack) = 1 THEN "raised" ELSE "unwinding"
    /\ UNCHANGED <<ast, entry, contexts, context, evaluator, resolver_evaluator,
                   named_coordinates, cResult, stores, finished>>
    /\ UNCHANGED <<rangeVars, macroVars, pathVars, resolveVars, parseVars, evaluateVars>>

\* an exception leaves the call on top: the "finally" of a loop restores the
\* parent context and evaluator on its way, visit_scope, visit_layer and
\* convert have no handler
Unwind ==
    /\ cPc = "unwinding"
    /\ IF Top.kind \in {"foreach", "expand"}
       THEN /\ context' = Top.parent_context
            /\ evaluator' = Top.parent_evaluator
            /\ contexts' = SubSeq(contexts, 1, Len(contexts) - 1)
       ELSE UNCHANGED <<contexts, context, evaluator>>
    /\ stack' = SubSeq(stack, 1, Len(stack) - 1)
    /\ cPc' = IF Len(stack) = 1 THEN "raised" ELSE "unwinding"
    /\ UNCHANGED <<ast, entry, resolver_evaluator, named_coordinates, cResult,
                   stores, finished>>
    /\ UNCHANGED <<rangeVars, macroVars, pathVars, resolveVars, parseVars, evaluateVars>>

\* what is known of a loop when it has completed
Finished(frame) ==
    [k |-> "loop", loop |-> frame.loop, elements |-> frame.elements,
     before |-> frame.before, after |-> contexts[context].variables,
     bound |-> frame.bound, trace |-> frame.trace]

\* visit_foreach_loop returns "\n  ".join(elements) to its caller
ReturnForeachLoop ==
    /\ cPc = "run"
    /\ Top.kind = "foreach"
    /\ Top.phase = "next"
    /\ Top.i = Len(Top.loop.values)
    /\ LET callers == SubSeq(stack, 1, Len(stack) - 1)
       IN  stack' = [callers EXCEPT ![Len(callers)] = Appended(@, Svg(Join(Top.elements)))]
    /\ finished' = Finished(Top)
    /\ UNCHANGED <<ast, entry, contexts, context, evaluator, resolver_evaluator,
                   named_coordinates, cResult, cPc, stores>>
    /\ UNCHANGED <<rangeVars, macroVars, pathVars, resolveVars, parseVars, evaluateVars>>

\* ForeachLoopExpander.expand returns elements
ReturnExpand ==
    /\ cPc = "run"
    /\ Top.kind = "expand"
    /\ Top.phase = "next"
    /\ Top.i = Len(Top.loop.values)
    /\ cResult' = Top.elements
    /\ finished' = Finished(Top)
    /\ stack' = <<>>
    /\ cPc' = "returned"
    /\ UNCHANGED <<ast, entry, contexts, context, evaluator, resolver_evaluator,
                   named_coordinates, stores>>
    /\ UNCHANGED <<rangeVars, macroVars, pathVars, resolveVars, parseVars, evaluateVars>>

\* convert returns the document around the joined elements
ReturnConvert ==
    /\ cPc = "run"
    /\ Top.kind = "convert"
    /\ Top.j > Len(Top.statements)
    /\ cResult' = <<[el |-> "svg", content |-> Join(Top.elements)]>>
    /\ stack' = <<>>
    /\ cPc' = "returned"
    /\ UNCHANGED <<ast, entry, contexts, context, evaluator, resolver_evaluator,
                   named_coordinates, stores, finished>>
    /\ UNCHANGED <<rangeVars, macroVars, pathVars, resolveVars, parseVars, evaluateVars>>

\* _check_for_arrows: a draw statement among the statements of the picture
\* has the option "arrow"
CheckForArrows(statements) ==
    \E i \in DOMAIN statements :
        /\ statements[i].type = "DrawStatement"
        /\ "arrow" \in DOMAIN statements[i].options

\* _create_arrow_markers: the defs block of the markers arrow-end and
\* arrow-start
CreateArrowMarkers == Svg(<<[el |-> "defs", markers |-> {"arrow-end", "arrow-start"}]>>)

\* the head of convert(statements): elements holds the marker definitions
\* if the picture needs them
ConvertCall(statements) ==
    [Frame("convert", statements, None, EmptyDict) EXCEPT
        !.elements = IF CheckForArrows(statements) THEN <<CreateArrowMarkers>> ELSE <<>>]

\* SVGConverter() and then either convert(ast) of a picture made of an
\* optional \def\outer{5} and a loop, or expand(loop, converter) with the
\* converter's context as it was left
InitConverter ==
    LET
        \* a tuple of two values, as foreach_value builds for a/b
        Pair(a, b) == [k |-> "pair", a |-> a, b |-> b]
        \* \draw (A) -- (1,1);
        DrawA ==
            DrawStatement(<<PathSegment(Op("start"), Named("A")),
                            PathSegment(Op("--"), Cartesian(S(1), S(1)))>>, NoOptions)
        \* \coordinate (A) at (1,0);
        CoordA == CoordinateDefinition("A", Cartesian(S(1), S(0)))
        \* \begin{scope} \coordinate (A) at (0,2); \end{scope}
        InnerScope == Scope(<<CoordinateDefinition("A", Cartesian(S(0), S(2)))>>)
        BodyStatements == {DrawI, DrawA, NodeA, CoordA, DefOuterInside, InnerLoop, InnerScope}
        Bodies == UNION {[1..len -> BodyStatements] : len \in 0..MaxBody}
        \* the values of a loop with one variable and of a loop with two
        SingleValues == {PyNum(1), Lit(2), Ref("outer")}
        PairedValues == {Pair(Lit(1), Lit(3)), Pair(Ref("outer"), PyNum(2)), Lit(2)}
        ValueLists(values) == UNION {[1..len -> values] : len \in 0..MaxValues}
        \* \foreach \i in {...}, with and without an evaluate clause (one that
        \* evaluates, one that does not), and \foreach \i/\n in {...}
        Loops ==
            { ForeachLoop(<<"i">>, values, clause, body) :
                values \in ValueLists(SingleValues),
                clause \in {None, EvaluateClause("d", Times("i", 2)),
                            EvaluateClause("d", Ref("undefined"))},
                body \in Bodies }
            \cup
            { ForeachLoop(<<"i", "n">>, values, None, body) :
                values \in ValueLists(PairedValues), body \in Bodies }
        \* the variables of the converter's context before the conversion: none, or
        \* outer = 5 as converter.context.set_variable("outer", 5) leaves it
        ContextsBefore == {EmptyDict, DictSet(EmptyDict, "outer", PyNum(5))}
        \* statements whose visit raises: a coordinate without values cannot be
        \* resolved (IndexError)
        NodeBad == Node(NoName, Coordinate("cartesian", <<>>, NoName, NoModifiers))
        CoordBad == CoordinateDefinition("A", Coordinate("polar", <<S(0)>>, NoName, NoModifiers))
        DrawBad ==
            DrawStatement(<<PathSegment(Op("start"), Cartesian(S(0), S(0))),
                            PathSegment(Op("--"),
                                        Coordinate("relative", <<>>, NoName, NoModifiers))>>,
                          NoOptions)
        InnerBad == ForeachLoop(<<"j">>, <<PyNum(3), Lit(4)>>, None, <<DrawI, NodeBad>>)
        \* loops whose body raises: at once, after a statement, in a scope, in an
        \* inner loop
        RaisingLoops ==
            { ForeachLoop(<<"i">>, values, None, body) :
                values \in {<<PyNum(1)>>, <<PyNum(1), Lit(2)>>},
                body \in { <<NodeBad>>, <<CoordBad>>, <<DrawBad>>,
                           <<DefOuterInside, NodeBad>>, <<Scope(<<NodeBad>>)>>,
                           <<InnerBad>>, <<Scope(<<InnerBad>>)>> } }
        \* \foreach \i in {0,...,\n}: the values are what foreach_value_list
        \* returns for a range whose end is not a number
        RangeLoops ==
            { ForeachLoop(<<"i">>,
                          <<RangeDict(NumItem(0), [k |-> "text", s |-> "\\n"], 1)>>,
                          None, body) :
                body \in {<<>>, <<NodeA>>, <<DrawI>>} }
    IN
    /\ OthersIdle("converter")
    /\ entry \in {"convert", "expand"}
    /\ \E loop \in Loops \cup RaisingLoops \cup RangeLoops :
         IF entry = "convert"
         THEN /\ ast \in {<<loop>>, <<MacroDefinition("outer", Lit(5)), loop>>}
              /\ contexts = <<NewContext(0)>>
              /\ stack = <<ConvertCall(ast)>>
         ELSE /\ ast = <<loop>>
              /\ \E variables \in ContextsBefore :
                    /\ contexts = <<[parent |-> 0, variables |-> variables]>>
                    /\ stack = <<Frame("expand", loop.body, loop, variables)>>
    /\ context = 1
    /\ evaluator = 1
    /\ resolver_evaluator = 1
    /\ named_coordinates = [n \in {} |-> <<>>]
    /\ cResult = <<>>
    /\ cPc = "run"
    /\ stores = <<>>
    /\ finished = None

NextConverter ==
    \/ VisitDrawStatement
    \/ VisitNode
    \/ VisitCoordinateDefinition
    \/ VisitMacroDefinition
    \/ EnterScope
    \/ LeaveScope
    \/ EnterForeachLoop
    \/ BeginIteration
    \/ EndIteration
    \/ ReturnForeachLoop
    \/ ReturnExpand
    \/ ReturnConvert
    \/ Unwind

Spec == InitConverter /\ [][NextConverter]_vars

\* SVGConverter() and then convert(ast)
InitDocument ==
    LET
        \* {"arrow": arrow} as TikzTransformer.arrow_spec makes it
        ArrowOption(arrow) == [n \in {"arrow"} |-> arrow]
        (***************************************************************************)
        (* convert(ast) of pictures whose draw statements have arrows and inline   *)
        (* coordinate labels, at top level and inside scopes, layers and loops.    *)
        (***************************************************************************)
        \* \draw (0,0) -- (1,0);
        DrawPlain ==
            DrawStatement(<<PathSegment(Op("start"), Cartesian(S(0), S(0))),
                            PathSegment(Op("--"), Cartesian(S(1), S(0)))>>, NoOptions)
        \* \draw[->] (0,0) -- (1,0); and the same with <- and <->
        DrawArrow(arrow) ==
            DrawStatement(<<PathSegment(Op("start"), Cartesian(S(0), S(0))),
                            PathSegment(Op("--"), Cartesian(S(1), S(0)))>>, ArrowOption(arrow))
        ArrowSpecs == {<<"-", ">">>, <<"<", "-">>, <<"<", "-", ">">>}
        \* \draw (x,y) coordinate(P) -- (3,4);
        DrawLabelP(x, y) ==
            DrawStatement(<<PathSegmentWithOptions(Op("start"), Cartesian(S(x), S(y)),
                                                   [n \in {"coordinate_name"} |-> "P"]),
                            PathSegment(Op("--"), Cartesian(S(3), S(4)))>>, NoOptions)
        \* \draw (0,0) -- (1,2) coordinate(P) -- (3,4) -- (P);
        DrawLabelAndBack ==
            DrawStatement(<<PathSegment(Op("start"), Cartesian(S(0), S(0))),
                            PathSegmentWithOptions(Op("--"), Cartesian(S(1), S(2)),
                                                   [n \in {"coordinate_name"} |-> "P"]),
                            PathSegment(Op("--"), Cartesian(S(3), S(4))),
                            PathSegment(Op("--"), Named("P"))>>, NoOptions)
        \* \draw (0,0) -- (P);
        DrawToP ==
            DrawStatement(<<PathSegment(Op("start"), Cartesian(S(0), S(0))),
                            PathSegment(Op("--"), Named("P"))>>, NoOptions)
        DocumentStatements ==
            {DrawPlain, DrawLabelP(1, 2), DrawLabelP(2, 2), DrawLabelAndBack, DrawToP}
            \cup {DrawArrow(arrow) : arrow \in ArrowSpecs}
            \cup {Scope(<<DrawPlain>>), Scope(<<DrawArrow(<<"-", ">">>)>>),
                  Layer("background", <<DrawArrow(<<"<", "-">>)>>),
                  ForeachLoop(<<"i">>, <<PyNum(1), Lit(2)>>, None, <<DrawArrow(<<"<", "-", ">">>)>>)}
        Documents == UNION {[1..len -> DocumentStatements] : len \in 0..MaxStatements}
    IN
    /\ OthersIdle("converter")
    /\ entry = "convert"
    /\ ast \in Documents
    /\ contexts = <<NewContext(0)>>
    /\ stack = <<ConvertCall(ast)>>
    /\ context = 1
    /\ evaluator = 1
    /\ resolver_evaluator = 1
    /\ named_coordinates = [n \in {} |-> <<>>]
    /\ cResult = <<>>
    /\ cPc = "run"
    /\ stores = <<>>
    /\ finished = None

NextDocument ==
    \/ VisitDrawStatement
    \/ EnterScope
    \/ LeaveScope
    \/ EnterLayer
    \/ LeaveLayer
    \/ EnterForeachLoop
    \/ BeginIteration
    \/ EndIteration
    \/ ReturnForeachLoop
    \/ ReturnConvert

SpecDocument == InitDocument /\ [][NextDocument]_vars

\* the state of the loop of path: segments, whether current_coord is set,
\* and current_operation
PathLoop(segments, current_coord, current_operation) ==
    [segments |-> segments, current_coord |-> current_coord,
     current_operation |-> current_operation]

\* one round of "while i < len(expanded_items)" in path
PathItem(state, item) ==
    LET operation == IF state.current_operation # None
                     THEN state.current_operation ELSE Op("move")
    IN  IF item.k = "dict" /\ item.type = "element" THEN
            PathLoop(Append(state.segments,
                            PathSegmentWithOptions(
                                IF ~state.current_coord THEN Op("start") ELSE operation,
                                item.coord,
                                IF item.coord_label # NoName
                                THEN [n \in {"coordinate_name"} |-> item.coord_label]
                                ELSE NoOptions)),
                     TRUE, None)
        ELSE IF item.k = "Coordinate" THEN
            PathLoop(Append(state.segments,
                            PathSegment(IF ~state.current_coord THEN Op("start")
                                        ELSE operation, item.coord)),
                     TRUE, None)
        ELSE IF item.k = "str" THEN
            PathLoop(state.segments, state.current_coord, Op(item.value))
        ELSE IF item.k = "dict" /\ item.type = "cycle" THEN
            PathLoop(Append(state.segments, PathSegment(Op("cycle"), None)),
                     state.current_coord, state.current_operation)
        ELSE state

\* path: the segments of the Path built from the items, from the i-th on
RECURSIVE PathFrom(_, _, _)
PathFrom(items, i, state) ==
    IF i > Len(items) THEN state.segments
    ELSE PathFrom(items, i + 1, PathItem(state, items[i]))

\* the transformer works bottom-up: the connectors are transformed, then
\* the path
TransformedPath(children) ==
    LET
        \* a string
        StrItem(value) == [k |-> "str", value |-> value]
        \* path_connector
        PathConnector(items) ==
            IF items = <<>> THEN StrItem("--")
            ELSE IF Len(items) > 1 /\ \E i \in DOMAIN items : items[i].k = "dict"
            THEN items[CHOOSE i \in DOMAIN items :
                           /\ items[i].k = "dict"
                           /\ \A j \in 1..(i - 1) : items[j].k # "dict"]
            ELSE IF items[1].k = "dict" THEN items[1]
            ELSE StrItem(items[1].value)
    IN
    PathFrom([i \in DOMAIN children |->
                IF children[i].k = "path_connector"
                THEN PathConnector(children[i].items) ELSE children[i]],
             1, PathLoop(<<>>, FALSE, None))

\* path(items) returns the Path
TransformPath ==
    /\ tPc = "parse"
    /\ tSegments' = TransformedPath(tChildren)
    /\ tPc' = "convert"
    /\ UNCHANGED <<tChildren, tData>>
    /\ UNCHANGED <<rangeVars, macroVars, pathVars, converterVars, resolveVars, evaluateVars>>

\* convert_path(path) on a new converter
ConvertParsedPath ==
    /\ tPc = "convert"
    /\ tData' = ConvertPath(PathResolver, tSegments)
    /\ tPc' = "done"
    /\ UNCHANGED <<tChildren, tSegments>>
    /\ UNCHANGED <<rangeVars, macroVars, pathVars, converterVars, resolveVars, evaluateVars>>

InitParse ==
    LET
        (***************************************************************************)
        (* TikzTransformer.path and path_connector (parser.py): the children the   *)
        (* grammar hands over for a path are coordinates, path elements (a         *)
        (* coordinate with a label), "cycle" and, between them, connectors.  The   *)
        (* Path that is returned is then converted by SVGConverter.convert_path.   *)
        (***************************************************************************)
        \* a Coordinate among the children
        CoordinateItem(coord) == [k |-> "Coordinate", coord |-> coord]
        \* path_element's {"coord": coord, "coord_label": {"name": coord_label}}
        ElementItem(coord, coord_label) ==
            [k |-> "dict", type |-> "element", coord |-> coord, coord_label |-> coord_label]
        \* path_element's {"_type": "cycle"}
        CycleItem == [k |-> "dict", type |-> "cycle"]
        \* a token of the grammar
        Token(value) == [k |-> "Token", value |-> value]
        \* controls_clause's {"_type": "controls", "points": points}
        ControlsItem(points) == [k |-> "dict", type |-> "controls", op |-> ControlsOp(points)]
        \* the children of a path_connector, still to be transformed
        ConnectorChildren(items) == [k |-> "path_connector", items |-> items]
        \* (c) and (c1) and (c2) of "controls"
        OneControl == <<Cartesian(S(0), S(1))>>
        TwoControls == <<Cartesian(S(0), S(1)), Cartesian(S(1), S(1))>>
        FirstChildren ==
            {CoordinateItem(Cartesian(S(0), S(0))), ElementItem(Cartesian(S(2), S(0)), "A")}
        \* what comes after the first coordinate: a connector or none, and then a
        \* coordinate, a labelled coordinate or cycle
        LaterChildren ==
            {connector \o <<point>> :
                connector \in {<<>>} \cup
                    {<<ConnectorChildren(items)>> :
                        items \in {<<>>, <<Token("--")>>, <<Token("..")>>,
                                   <<ControlsItem(OneControl)>>,
                                   <<Token(".."), ControlsItem(TwoControls), Token("..")>>}},
                point \in {CoordinateItem(Cartesian(S(4), S(0))),
                           CoordinateItem(Cartesian(S(0), S(2))),
                           ElementItem(Cartesian(S(2), S(2)), "B"),
                           CycleItem}}
        RECURSIVE ChildrenLists(_)
        ChildrenLists(points) ==
            IF points <= 1 THEN {<<first>> : first \in FirstChildren}
            ELSE LET shorter == ChildrenLists(points - 1)
                 IN  shorter \cup {list \o later : list \in shorter, later \in LaterChildren}
    IN
    /\ OthersIdle("parse")
    /\ tChildren \in ChildrenLists(MaxPoints)
    /\ tSegments = <<>>
    /\ tData = <<>>
    /\ tPc = "parse"

NextParse ==
    \/ TransformPath
    \/ ConvertParsedPath

SpecParse == InitParse /\ [][NextParse]_vars

(***************************************************************************)
(* MathEvaluator.evaluate (math_eval.py) on the text of an expression.  A  *)
(* string is the sequence of its characters; the regular expressions and   *)
(* eval are worked out on the characters for expressions that are a number *)
(* or a call f(argument).  The value of a call of a function of Python is  *)
(* the application itself: Apply("math.log10", 100) is math.log10(100).    *)
(***************************************************************************)
\* [a-zA-Z_]
NameStart ==
    {"a", "b", "c", "d", "e", "f", "g", "h", "i", "j", "k", "l", "m", "n", "o",
     "p", "q", "r", "s", "t", "u", "v", "w", "x", "y", "z", "_"}

DigitChars == <<"0", "1", "2", "3", "4", "5", "6", "7", "8", "9">>

\* \w
IsWordChar(c) == c \in NameStart \/ \E d \in DOMAIN DigitChars : DigitChars[d] = c

\* FUNCTION_MAP, in the order of the dict
FUNCTION_MAP ==
    <<<<<<"s", "q", "r", "t">>, <<"m", "a", "t", "h", ".", "s", "q", "r", "t">>>>,
      <<<<"s", "i", "n">>, <<"m", "a", "t", "h", ".", "s", "i", "n">>>>,
      <<<<"c", "o", "s">>, <<"m", "a", "t", "h", ".", "c", "o", "s">>>>,
      <<<<"t", "a", "n">>, <<"m", "a", "t", "h", ".", "t", "a", "n">>>>,
      <<<<"a", "b", "s">>, <<"a", "b", "s">>>>,
      <<<<"e", "x", "p">>, <<"m", "a", "t", "h", ".", "e", "x", "p">>>>,
      <<<<"l", "n">>, <<"m", "a", "t", "h", ".", "l", "o", "g">>>>,
      <<<<"l", "o", "g">>, <<"m", "a", "t", "h", ".", "l", "o", "g", "1", "0">>>>,
      <<<<"f", "l", "o", "o", "r">>, <<"m", "a", "t", "h", ".", "f", "l", "o", "o", "r">>>>,
      <<<<"c", "e", "i", "l">>, <<"m", "a", "t", "h", ".", "c", "e", "i", "l">>>>,
      <<<<"r", "o", "u", "n", "d">>, <<"r", "o", "u", "n", "d">>>>>>

\* text[i:].startswith(sub), i counted from 1
StartsWith(text, i, sub) ==
    /\ i + Len(sub) - 1 <= Len(text)
    /\ SubSeq(text, i, i + Len(sub) - 1) = sub

\* str(value) of an int or of a float that is a whole number
RECURSIVE StrOfInt(_)
StrOfInt(n) ==
    IF n < 10 THEN <<DigitChars[n + 1]>>
    ELSE Append(StrOfInt(n \div 10), DigitChars[(n % 10) + 1])

\* the end of the name that starts at i: [a-zA-Z0-9_]*
RECURSIVE NameEnd(_, _)
NameEnd(text, i) ==
    IF i + 1 <= Len(text) /\ IsWordChar(text[i + 1]) THEN NameEnd(text, i + 1) ELSE i

\* _replace_variables: re.sub(r"\\([a-zA-Z_][a-zA-Z0-9_]*)", replace_var, expr),
\* from the i-th character on
RECURSIVE ReplaceVariablesFrom(_, _, _)
ReplaceVariablesFrom(text, i, variables) ==
    LET
        StrOfValue(value) ==
            IF value.k = "float" THEN StrOfInt(value.n) \o <<".", "0">> ELSE StrOfInt(value.n)
    IN
    IF i > Len(text) THEN <<>>
    ELSE IF text[i] = "\\" /\ i + 1 <= Len(text) /\ text[i + 1] \in NameStart
    THEN LET last == NameEnd(text, i + 1)
             var_name == SubSeq(text, i + 1, last)
         IN  (IF var_name \in DOMAIN variables
              THEN StrOfValue(variables[var_name])
              ELSE SubSeq(text, i, last))
             \o ReplaceVariablesFrom(text, last + 1, variables)
    ELSE <<text[i]>> \o ReplaceVariablesFrom(text, i + 1, variables)

\* re.sub(rf"\b{latex_func}\b", python_func, expr), from the i-th character on
RECURSIVE SubWordFrom(_, _, _, _)
SubWordFrom(text, i, latex_func, python_func) ==
    IF i > Len(text) THEN <<>>
    ELSE IF /\ StartsWith(text, i, latex_func)
            /\ (i = 1 \/ ~IsWordChar(text[i - 1]))
            /\ (i + Len(latex_func) > Len(text) \/ ~IsWordChar(text[i + Len(latex_func)]))
    THEN python_func \o SubWordFrom(text, i + Len(latex_func), latex_func, python_func)
    ELSE <<text[i]>> \o SubWordFrom(text, i + 1, latex_func, python_func)

\* one round of the loop of _replace_functions
SubWord(text, latex_func, python_func) == SubWordFrom(text, 1, latex_func, python_func)

\* _replace_functions: the functions of FUNCTION_MAP one after the other,
\* each on the text the one before has left
RECURSIVE ReplaceFunctionsFrom(_, _)
ReplaceFunctionsFrom(text, k) ==
    IF k > Len(FUNCTION_MAP) THEN text
    ELSE ReplaceFunctionsFrom(SubWord(text, FUNCTION_MAP[k][1], FUNCTION_MAP[k][2]), k + 1)

\* the first index from i on where the character is (or is not) c; 0 if none
RECURSIVE Find(_, _, _, _)
Find(text, i, c, is) ==
    IF i > Len(text) THEN 0
    ELSE IF (text[i] = c) = is THEN i
    ELSE Find(text, i + 1, c, is)

\* _handle_trig_degrees: re.sub(r"math\.(sin|cos|tan)\s*\(([^)]+)\)", ...),
\* from the i-th character on
RECURSIVE HandleTrigDegreesFrom(_, _)
HandleTrigDegreesFrom(text, i) ==
    LET
        TrigFunctions == {<<"s", "i", "n">>, <<"c", "o", "s">>, <<"t", "a", "n">>}
    IN
    IF i > Len(text) THEN <<>>
    ELSE LET matching ==
                {func \in TrigFunctions :
                    LET open == Find(text, i + 5 + Len(func), " ", FALSE)
                        close == IF open = 0 THEN 0 ELSE Find(text, open + 1, ")", TRUE)
                    IN  /\ StartsWith(text, i, <<"m", "a", "t", "h", ".">> \o func)
                        /\ open # 0
                        /\ text[open] = "("
                        /\ close > open + 1}
         IN  IF matching = {} THEN <<text[i]>> \o HandleTrigDegreesFrom(text, i + 1)
             ELSE LET func == CHOOSE f \in matching : TRUE
                      open == Find(text, i + 5 + Len(func), " ", FALSE)
                      close == Find(text, open + 1, ")", TRUE)
                  IN  <<"m", "a", "t", "h", ".">> \o func \o <<"(", "m", "a", "t", "h", ".", "r", "a", "d", "i", "a", "n", "s", "(">>
                        \o SubSeq(text, open + 1, close - 1) \o <<")", ")">>
                        \o HandleTrigDegreesFrom(text, close + 1)

\* _process_expression
ProcessExpression(expr, variables) ==
    HandleTrigDegreesFrom(ReplaceFunctionsFrom(ReplaceVariablesFrom(expr, 1, variables), 1), 1)

\* the text is digits, or digits followed by ".0"
IsNumberText(text) ==
    LET digits == IF Len(text) > 2 /\ SubSeq(text, Len(text) - 1, Len(text)) = <<".", "0">>
                  THEN SubSeq(text, 1, Len(text) - 2) ELSE text
    IN  /\ digits # <<>>
        /\ \A i \in DOMAIN digits : \E d \in DOMAIN DigitChars : DigitChars[d] = digits[i]

\* the number the text stands for
RECURSIVE NumberOfText(_)
NumberOfText(text) ==
    IF Len(text) > 2 /\ SubSeq(text, Len(text) - 1, Len(text)) = <<".", "0">>
    THEN NumberOfText(SubSeq(text, 1, Len(text) - 2))
    ELSE IF text = <<>> THEN 0
    ELSE 10 * NumberOfText(SubSeq(text, 1, Len(text) - 1))
         + ((CHOOSE d \in DOMAIN DigitChars : DigitChars[d] = text[Len(text)]) - 1)

\* function(argument) in Python
Apply(function, argument) == [k |-> "apply", function |-> function, argument |-> argument]

\* a value eval returns (num: it is a number of the model, not an application)
Value(v) == [ok |-> TRUE, v |-> [k |-> "num", n |-> v], num |-> TRUE]

\* eval(expr, safe_namespace) of a number, of a sum, of an expression in
\* parentheses or of a call with one argument
RECURSIVE SafeEval(_)
SafeEval(expr) ==
    LET
        \* what safe_namespace gives for a name or an attribute of math that takes
        \* one number: the function of Python
        SafeNamespace ==
            [name \in {<<"m", "a", "t", "h", ".", "s", "q", "r", "t">>,
                       <<"m", "a", "t", "h", ".", "s", "i", "n">>,
                       <<"m", "a", "t", "h", ".", "c", "o", "s">>,
                       <<"m", "a", "t", "h", ".", "t", "a", "n">>,
                       <<"m", "a", "t", "h", ".", "e", "x", "p">>,
                       <<"m", "a", "t", "h", ".", "l", "o", "g">>,
                       <<"m", "a", "t", "h", ".", "l", "o", "g", "1", "0">>,
                       <<"m", "a", "t", "h", ".", "f", "l", "o", "o", "r">>,
                       <<"m", "a", "t", "h", ".", "c", "e", "i", "l">>,
                       <<"m", "a", "t", "h", ".", "r", "a", "d", "i", "a", "n", "s">>,
                       <<"a", "b", "s">>,
                       <<"r", "o", "u", "n", "d">>} |->
                CASE name = <<"m", "a", "t", "h", ".", "s", "q", "r", "t">> -> "math.sqrt"
                  [] name = <<"m", "a", "t", "h", ".", "s", "i", "n">> -> "math.sin"
                  [] name = <<"m", "a", "t", "h", ".", "c", "o", "s">> -> "math.cos"
                  [] name = <<"m", "a", "t", "h", ".", "t", "a", "n">> -> "math.tan"
                  [] name = <<"m", "a", "t", "h", ".", "e", "x", "p">> -> "math.exp"
                  [] name = <<"m", "a", "t", "h", ".", "l", "o", "g">> -> "math.log"
                  [] name = <<"m", "a", "t", "h", ".", "l", "o", "g", "1", "0">> -> "math.log10"
                  [] name = <<"m", "a", "t", "h", ".", "f", "l", "o", "o", "r">> -> "math.floor"
                  [] name = <<"m", "a", "t", "h", ".", "c", "e", "i", "l">> -> "math.ceil"
                  [] name = <<"m", "a", "t", "h", ".", "r", "a", "d", "i", "a", "n", "s">> -> "math.radians"
                  [] name = <<"a", "b", "s">> -> "abs"
                  [] name = <<"r", "o", "u", "n", "d">> -> "round"]
        EvalError == [ok |-> FALSE, v |-> None, num |-> FALSE]
        \* the index of the parenthesis that closes the one open before i (0:
        \* none does)
        RECURSIVE Closing(_, _, _)
        Closing(text, i, depth) ==
            IF i > Len(text) THEN 0
            ELSE IF text[i] = ")"
            THEN (IF depth = 0 THEN i ELSE Closing(text, i + 1, depth - 1))
            ELSE Closing(text, i + 1, IF text[i] = "(" THEN depth + 1 ELSE depth)
        \* the last "+" that is outside every parenthesis (0: there is none)
        RECURSIVE LastPlus(_, _, _, _)
        LastPlus(text, i, depth, found) ==
            IF i > Len(text) THEN found
            ELSE IF text[i] = "(" THEN LastPlus(text, i + 1, depth + 1, found)
            ELSE IF text[i] = ")" THEN LastPlus(text, i + 1, depth - 1, found)
            ELSE LastPlus(text, i + 1, depth, IF text[i] = "+" /\ depth = 0 THEN i ELSE found)
        \* a + b
        Sum(a, b) ==
            IF a.num /\ b.num THEN Value(a.v.n + b.v.n)
            ELSE [ok |-> TRUE, v |-> [k |-> "sum", a |-> a.v, b |-> b.v], num |-> FALSE]
    IN
    IF IsNumberText(expr) THEN Value(NumberOfText(expr))
    ELSE IF expr = <<>> THEN EvalError
    ELSE LET plus == LastPlus(expr, 1, 0, 0)
             open == Find(expr, 1, "(", TRUE)
         IN  IF plus # 0 THEN
                 (IF plus = 1 \/ plus = Len(expr) THEN EvalError
                  ELSE LET a == SafeEval(SubSeq(expr, 1, plus - 1))
                           b == SafeEval(SubSeq(expr, plus + 1, Len(expr)))
                       IN  IF a.ok /\ b.ok THEN Sum(a, b) ELSE EvalError)
             ELSE IF open = 0 \/ Closing(expr, open + 1, 0) # Len(expr) THEN EvalError
             ELSE LET callee == SubSeq(expr, 1, open - 1)
                      argument == SafeEval(SubSeq(expr, open + 1, Len(expr) - 1))
                  IN  IF ~argument.ok THEN EvalError
                      ELSE IF callee = <<>> THEN argument
                      ELSE IF callee \notin DOMAIN SafeNamespace THEN EvalError
                      ELSE [ok |-> TRUE, v |-> Apply(SafeNamespace[callee], argument.v),
                            num |-> FALSE]

\* str(expr).strip() for blanks
RECURSIVE Strip(_)
Strip(text) ==
    IF text # <<>> /\ text[1] = " " THEN Strip(Tail(text))
    ELSE IF text # <<>> /\ text[Len(text)] = " " THEN Strip(SubSeq(text, 1, Len(text) - 1))
    ELSE text

\* MathEvaluator.evaluate: the float returned, or ValueError
EvaluateText(expr, variables) ==
    IF expr = <<>> THEN Value(0)
    ELSE LET stripped == Strip(expr)
         IN  IF IsNumberText(stripped) THEN Value(NumberOfText(stripped))
             ELSE SafeEval(ProcessExpression(stripped, variables))

NumberTexts ==
    LET
        \* the arguments: whole numbers from 1 on, of up to MaxDigits digits
        ArgumentDigits == {"0", "1", "2"}
    IN
    {<<first>> \o rest :
        first \in ArgumentDigits \ {"0"},
        rest \in UNION {[1..len -> ArgumentDigits] : len \in 0..(MaxDigits - 1)}}

\* evaluate(expr) returns or raises ValueError
EvaluateCall ==
    /\ ePc = "call"
    /\ LET r == EvaluateText(eExpr, eVariables)
       IN  /\ ePc' = IF r.ok THEN "returned" ELSE "raised"
           /\ eResult' = r.v
    /\ UNCHANGED <<eExpr, eVariables>>
    /\ UNCHANGED <<rangeVars, macroVars, pathVars, converterVars, resolveVars, parseVars>>

\* MathEvaluator(context) with x unset, an int or a float
InitEvaluate ==
    LET
        Arguments == NumberTexts \cup {<<"\\", "x">>}
        FunctionNames ==
            {FUNCTION_MAP[k][1] : k \in DOMAIN FUNCTION_MAP} \cup {<<"l", "o", "g", "1", "0">>, <<"l", "g">>}
        Call(name, argument) == name \o <<"(">> \o argument \o <<")">>
        TrigNames == {<<"s", "i", "n">>, <<"c", "o", "s">>, <<"t", "a", "n">>}
        \* arguments that hold parentheses: (n), a trig call, sums
        NestedArguments ==
            {Call(<<>>, n) : n \in NumberTexts}
            \cup {Call(name, n) : name \in TrigNames, n \in NumberTexts}
            \cup {<<"(", "1", "+", "2", ")", "+", "2", "7">>,
                  <<"2", "+", "(", "1", ")">>, <<"1", "+", "2">>}
        \* f(argument) and the argument alone
        Expressions ==
            Arguments \cup NestedArguments
            \cup {Call(name, argument) : name \in FunctionNames, argument \in Arguments}
            \cup {Call(name, argument) : name \in TrigNames, argument \in NestedArguments}
    IN
    /\ OthersIdle("evaluate")
    /\ eExpr \in Expressions
    /\ eVariables \in {[n \in {} |-> 0],
                       [n \in {<<"x">>} |-> [k |-> "int", n |-> 10]],
                       [n \in {<<"x">>} |-> [k |-> "float", n |-> 10]]}
    /\ eResult = None
    /\ ePc = "call"

NextEvaluate == EvaluateCall

SpecEvaluate == InitEvaluate /\ [][NextEvaluate]_vars

(***************************************************************************)
(* Range expansion: what the lists are expected to be.                     *)
(***************************************************************************)
\* the values start, start+step, ... that do not pass end
ExpectedRange(start, step, end) ==
    IF step = 0 THEN <<start>>
    ELSE LET n == IF step > 0
                  THEN (IF end >= start THEN ((end - start) \div step) + 1 ELSE 0)
                  ELSE (IF start >= end THEN ((start - end) \div (0 - step)) + 1 ELSE 0)
         IN  [k \in 1..n |-> start + (k - 1) * step]

\* start,...,end with numeric start and end
IsSimpleRange(items) ==
    /\ DotDotDotIdx(items) = 2
    /\ Len(items) >= 3
    /\ IsFloat(items[1]) /\ IsFloat(items[3])

\* start,second,...,end with numeric start, second and end
IsSteppedRange(items) ==
    /\ DotDotDotIdx(items) = 3
    /\ Len(items) >= 4
    /\ IsFloat(items[1]) /\ IsFloat(items[2]) /\ IsFloat(items[4])

\* C4: a returned value list is: for start,...,end the values start, start+1,
\* ... up to and including end; for start,second,...,end the values from
\* start in steps of second - start that do not pass end (end included when
\* a step lands on it); for a list without "..." the items themselves.
C4_RangeExpansion ==
    rPc = "returned" =>
        /\ DotDotDotIdx(rItems) = 0 => rResult = rItems
        /\ IsSimpleRange(rItems) =>
                rResult = [k \in 1..(Float(rItems[3]) - Float(rItems[1]) + 1)
                              |-> Float(rItems[1]) + k - 1]
        /\ IsSteppedRange(rItems) =>
                rResult = ExpectedRange(Float(rItems[1]),
                                        Float(rItems[2]) - Float(rItems[1]),
                                        Float(rItems[4]))

\* {0,2,...,8} has been expanded to [0,2,4,6,8]
C4_Witness ==
    /\ rPc = "returned"
    /\ rItems = <<NumItem(0), NumItem(2), DotsItem, NumItem(8)>>
    /\ rResult = <<0, 2, 4, 6, 8>>

C6_BoundedExpansion ==
    /\ mPc # "raised"
    /\ mDepth <= max_depth
    /\ mPc = "returned" /\ mEnded = "depth" =>
            mDepth = max_depth /\ mResult = mText

\* the text holds no control sequence that starts with the name of a macro
NoMacroReference(macros, text) ==
    \A k \in 1..Len(macros) : \A i \in 1..Len(text) :
        ~OccursAt(text, i, <<BS>> \o macros[k].name)

\* C7: expanding a text without a reference to a known macro returns the
\* text unchanged; and when a first expansion ended because the text stopped
\* changing, expanding its result returns that result.
C7_Idempotence ==
    /\ mPc \in {"returned", "raised"} /\ NoMacroReference(mMacros, mInput) =>
            mPc = "returned" /\ mResult = mInput
    /\ mPc \in {"returned", "raised"} /\ mRun = 2 /\ mFirst.ended = "fixpoint" =>
            mPc = "returned" /\ mResult = mFirst.text

(***************************************************************************)
(* The path walk: the cursor and the render points.                        *)
(***************************************************************************)
\* the segment the walk is about to handle
NextSegment == pSegments[pIndex]

\* the walk handles a segment in this step
WalkStep == pPc = "walk" /\ pIndex' = pIndex + 1

IsRelative(destination) ==
    destination # None /\ destination.system = "relative"

\* the cursor after a segment with a relative destination, as the operator
\* of the destination has it
CursorAsOperatorSays ==
    LET destination == NextSegment.destination
    IN  IF destination.modifiers["operator"] = "++"
        THEN pCurrent' = Resolve(PathResolver, destination, pCurrent)
        ELSE pCurrent' = pCurrent

\* a segment with a connector or a keyword for its operation, not a
\* structured operation and not cycle
IsPlainSegment(segment) ==
    ~segment.operation.dict /\ segment.operation.op # "cycle"

PathPlusPlus ==
    <<PathSegment(Op("start"), Cartesian(S(0), S(0))),
      PathSegment(Op("--"), Relative("++", S(1), S(0))),
      PathSegment(Op("--"), Relative("++", S(0), S(1)))>>

PathPlus ==
    <<PathSegment(Op("start"), Cartesian(S(0), S(0))),
      PathSegment(Op("--"), Relative("+", S(1), S(0))),
      PathSegment(Op("--"), Relative("+", S(0), S(1)))>>

\* C2 as stated: after ANY segment whose destination is a relative
\* coordinate, the cursor is the resolved point when the operator is ++ and
\* is unchanged when the operator is +.
C2_AnyRelativeSegment ==
    [][(WalkStep /\ IsRelative(NextSegment.destination)) => CursorAsOperatorSays]_vars

\* C2, amended: after a segment with a plain operation (a connector or a
\* keyword, not circle, controls or cycle) whose destination is a relative
\* coordinate, the cursor is the resolved point when the operator is ++ and
\* is unchanged when the operator is +.  The walk of
\* (0,0) -- ++(1,0) -- ++(0,1) ends with the cursor at (1,1), that is
\* (278.35, 221.65), and in (0,0) -- +(1,0) -- +(0,1) the second + is taken
\* from (0,0): the last line goes to (0,1), that is (250.00, 221.65).
C2_RelativeCursor ==
    /\ [][(/\ WalkStep
           /\ IsRelative(NextSegment.destination)
           /\ IsPlainSegment(NextSegment)) => CursorAsOperatorSays]_vars
    /\ [](pPc = "returned" /\ pSegments = PathPlusPlus
            => pCurrent = <<27835, 22165>>)
    /\ [](pPc = "returned" /\ pSegments = PathPlus
            => /\ pCurrent = <<25000, 25000>>
               /\ pData[3] = Cmd("L", <<25000, 22165>>))

\* the walk of (0,0) -- +(1,0) -- +(0,1) has returned, its two lines drawn
\* from (0,0)
C2_Witness ==
    /\ pPc = "returned"
    /\ pSegments = PathPlus
    /\ pData[2] = Cmd("L", <<27835, 25000>>)
    /\ pData[3] = Cmd("L", <<25000, 22165>>)

IsLiteralCartesian(destination) ==
    /\ destination # None
    /\ destination.system = "cartesian"
    /\ \A i \in 1..2 : destination.values[i].form = "lit"

\* the render point of the source point (x, y) with the default scale on the
\* default canvas, in hundredths
RenderPoint(x, y) == <<25000 + (2835 * x), 25000 - (2835 * y)>>

PathDiagonal ==
    <<PathSegment(Op("start"), Cartesian(S(0), S(0))),
      PathSegment(Op("--"), Cartesian(S(1), S(1)))>>

\* C8: a cartesian coordinate (x, y) resolves to
\* (x*28.35 + 250, -y*28.35 + 250): a start or a line segment to it emits
\* that point and moves the cursor to it, and the path (0,0) -- (1,1) gives
\* M 250.00 250.00 L 278.35 221.65.
C8_CartesianResolution ==
    /\ [][(/\ WalkStep
           /\ IsLiteralCartesian(NextSegment.destination)
           /\ IsPlainSegment(NextSegment)
           /\ NextSegment.operation.op \in {"start", "--"})
          => LET d == NextSegment.destination
                 point == RenderPoint(d.values[1].n, d.values[2].n)
             IN  /\ pCurrent' = point
                 /\ pData' = Append(pData,
                        Cmd(IF NextSegment.operation.op = "start" THEN "M" ELSE "L",
                            point))]_vars
    /\ [](pPc = "returned" /\ pSegments = PathDiagonal
            => SubSeq(pData, 1, 2) = <<Cmd("M", <<25000, 25000>>),
                                       Cmd("L", <<27835, 22165>>)>>)

\* the walk of (0,0) -- (1,1) has returned its two commands
C8_Witness ==
    /\ pPc = "returned"
    /\ pSegments = PathDiagonal
    /\ ~pClosed
    /\ pData = <<Cmd("M", <<25000, 25000>>), Cmd("L", <<27835, 22165>>)>>

(***************************************************************************)
(* Statement-level foreach: contexts, order, named coordinates.            *)
(***************************************************************************)
\* the names a loop sets in an iteration: its variables and the target of
\* its evaluate clause
NamesSetBy(loop) ==
    {loop.variables[v] : v \in 1..Len(loop.variables)}
    \cup (IF loop.evaluate_clause = None THEN {} ELSE {loop.evaluate_clause.target})

\* the calls of a loop on the stack that are inside an iteration
IteratingFrames ==
    {f \in 1..Len(stack) :
        stack[f].kind \in {"foreach", "expand"} /\ stack[f].phase = "body"}

\* name is set by a context on the parent chain of c below the context stop
RECURSIVE ShadowedBelow(_, _, _)
ShadowedBelow(c, stop, name) ==
    IF c = stop \/ c = 0 THEN FALSE
    ELSE name \in DOMAIN contexts[c].variables
            \/ ShadowedBelow(contexts[c].parent, stop, name)

\* C1: when a statement-level foreach has completed, no loop variable and no
\* evaluate-clause target it set is in the parent context's variables
\* (unless the parent had it before the loop), and every variable the parent
\* had before the loop has its value unchanged; inside every iteration every
\* such variable is read with that value unless the iteration shadows it,
\* and the parent's own variables are untouched meanwhile.
C1_ContextIsolation ==
    /\ finished # None =>
         /\ \A name \in NamesSetBy(finished.loop) \ DOMAIN finished.before :
                name \notin DOMAIN finished.after
         /\ \A name \in DOMAIN finished.before :
                /\ name \in DOMAIN finished.after
                /\ finished.after[name] = finished.before[name]
    /\ cPc = "run" =>
         \A f \in IteratingFrames :
            LET parent == stack[f].parent_context
            IN  /\ contexts[parent].variables = stack[f].before
                /\ \A name \in DOMAIN stack[f].before :
                        \/ ShadowedBelow(context, parent, name)
                        \/ GetVariable(contexts, context, name) = stack[f].before[name]

\* a loop over two values with an evaluate clause that evaluates and a body
\* that sets outer has completed in a context that had outer = 5
C1_Witness ==
    /\ finished # None
    /\ finished.loop.variables = <<"i">>
    /\ Len(finished.loop.values) = 2
    /\ finished.loop.evaluate_clause = EvaluateClause("d", Times("i", 2))
    /\ \E s \in 1..Len(finished.loop.body) : finished.loop.body[s] = DefOuterInside
    /\ finished.before = DictSet(EmptyDict, "outer", PyNum(5))
    /\ finished.after = finished.before

\* the position of the last store of name among stores
RECURSIVE LastStored(_, _)
LastStored(log, name) ==
    IF log[Len(log)][1] = name THEN log[Len(log)][2]
    ELSE LastStored(SubSeq(log, 1, Len(log) - 1), name)

StoredNames == {stores[s][1] : s \in 1..Len(stores)}

\* C3: at any depth of scopes and loops, a named coordinate resolves to the
\* position of the most recent store of its name, by \coordinate or by a
\* named node; and a step that stores nothing (leaving a scope, restoring
\* the context after an iteration, returning from a loop) leaves the table
\* as it is.
C3_NamedLastWriteWins ==
    /\ [](\A name \in StoredNames :
            Resolve(CoordResolver, Named(name), <<>>) = LastStored(stores, name))
    /\ [][stores' = stores => named_coordinates' = named_coordinates]_vars

\* A has been stored twice with different positions, last inside a scope in
\* a loop body whose iteration has since been left, and the table holds the
\* second position
C3_Witness ==
    /\ cPc = "run"
    /\ Len(stores) = 2
    /\ stores[1] = <<"A", <<27835, 25000>>>>
    /\ stores[2] = <<"A", <<25000, 19330>>>>
    /\ Top.kind \in {"foreach", "expand"}
    /\ Top.phase = "next"
    /\ Len(contexts) = 1
    /\ named_coordinates["A"] = <<25000, 19330>>

\* every statement of body returns an element that is appended
RECURSIVE AllRender(_)
AllRender(body) ==
    \A s \in 1..Len(body) :
        \/ body[s].type \in {"DrawStatement", "Node"}
        \/ /\ body[s].type = "ForeachLoop"
           /\ body[s].values # <<>>
           /\ body[s].body # <<>>
           /\ \E t \in 1..Len(body[s].body) :
                body[s].body[t].type \in {"DrawStatement", "Node"}

\* the k-th value of a loop as the loop variable is to be bound to it: a
\* number (or the dictionary of an unexpanded range) as it is, the string of a
\* number as that number, a reference to a
\* variable of the enclosing context as its number (and as the string itself
\* when it cannot be evaluated there)
ExpectedBinding(value, enclosing) ==
    IF value.k \in {"pynum", "range"} THEN value
    ELSE IF value.form = "lit" THEN PyNum(value.n)
    ELSE IF value.x \in DOMAIN enclosing THEN enclosing[value.x]
    ELSE value

FirstOf(value) == IF value.k = "pair" THEN value.a ELSE value

\* C9: a completed foreach over n values with a body of m statements that
\* each render a fragment has appended exactly n*m elements, the elements of
\* the first iteration first and within an iteration in body order; in the
\* k-th iteration the loop variable was bound to the k-th value, evaluated in
\* the enclosing context when it is a string; and a loop without values or
\* without body has appended nothing.
C9_ForeachOrder ==
    finished # None =>
        LET loop == finished.loop
            n == Len(loop.values)
            m == Len(loop.body)
        IN  /\ AllRender(loop.body) =>
                /\ Len(finished.elements) = n * m
                /\ finished.trace =
                        [e \in 1..(n * m) |-> <<((e - 1) \div m) + 1, ((e - 1) % m) + 1>>]
            /\ Len(finished.bound) = n
            /\ \A k \in 1..n :
                    (Len(loop.variables) = 1 \/ loop.values[k].k = "pair") =>
                        finished.bound[k] =
                            ExpectedBinding(FirstOf(loop.values[k]), finished.before)
            /\ (n = 0 \/ m = 0) => finished.elements = <<>>

\* \foreach \i in {\outer, 2} { \draw ...; \node ...; } has completed where
\* outer = 5, with four elements and i bound to 5 and then to 2
C9_Witness ==
    /\ finished # None
    /\ finished.loop.values = <<Ref("outer"), Lit(2)>>
    /\ finished.loop.body = <<DrawI, NodeA>>
    /\ finished.bound = <<PyNum(5), PyNum(2)>>
    /\ Len(finished.elements) = 4
    /\ finished.trace = <<<<1, 1>>, <<1, 2>>, <<2, 1>>, <<2, 2>>>>

\* C10: while the body of an iteration is visited, a coordinate that
\* references the loop variable is resolved with the binding of that
\* iteration: \draw (\i,0) -- ... with i bound to the number v starts at the
\* render point of (v, 0), not at that of (0, 0).
C10_LiveContext ==
    [][(/\ Visiting
        /\ Current = DrawI
        /\ IteratingFrames # {}
        /\ IsNumber(GetVariable(contexts, context, "i")))
       => LET v == GetVariable(contexts, context, "i").n
              elements == stack'[Len(stack)].elements
              drawn == elements[Len(elements)].atoms[1]
          IN  drawn.d[1] = Cmd("M", RenderPoint(v, 0))]_vars

IsArcSegment(segment) == segment.operation.dict /\ segment.operation.type = "arc"

\* C11: an arc operation met when there is no cursor, or without a
\* specification, appends no command and leaves the cursor as it is (absent
\* when it was absent).
C11_ArcWithoutCursor ==
    [][(/\ WalkStep
        /\ IsArcSegment(NextSegment)
        /\ (pCurrent = <<>> \/ NextSegment.operation.spec = None))
       => /\ pData' = pData
          /\ pCurrent' = pCurrent]_vars

\* the walk of +(1,0) arc (0:90:1) has returned: the start left the cursor
\* absent and the arc added nothing
C11_Witness ==
    /\ pPc = "returned"
    /\ Len(pSegments) = 2
    /\ pSegments[1] = PathSegment(Op("start"), Relative("+", S(1), S(0)))
    /\ pSegments[2] = PathSegment(ArcOp(ArcSpec("angles", S(0), S(90), S(1))),
                                  Relative("+", S(1), S(0)))
    /\ ~pClosed
    /\ pData = <<Cmd("M", <<27835, 25000>>)>>
    /\ pCurrent = <<>>

(***************************************************************************)
(* Coordinate resolution: fallbacks.                                       *)
(***************************************************************************)
\* the number an entry of a values list stands for where the variables are
\* as given: 0 for an entry that cannot be evaluated
ExpectedNumber(value, variables) ==
    IF value.k = "pynum" THEN value.n
    ELSE IF value.k # "str" THEN 0
    ELSE IF value.form = "lit" THEN value.n
    ELSE IF value.form = "ref" /\ value.x \in DOMAIN variables THEN variables[value.x].n
    ELSE 0

C13_ResolveNeverRaises ==
    /\ qPc # "raised"
    /\ qPc = "returned" => (Len(qResult) = 2 /\ qResult[1] \in Int /\ qResult[2] \in Int)

\* C14: a named coordinate whose name is not in the table, and a coordinate
\* with an unknown system tag, resolve to the transformed origin
\* (250.00, 250.00); the table is left as it is.
C14_OriginFallback ==
    /\ [](qPc = "returned" =>
            /\ (/\ qCoord.system = "named"
                /\ qCoord.name \notin DOMAIN qNamed) => qResult = <<25000, 25000>>
            /\ qCoord.system \notin {"cartesian", "polar", "named", "relative"}
                    => qResult = <<25000, 25000>>)
    /\ [][qNamed' = qNamed]_vars

\* (B) resolved where the table holds A only
C14_Witness ==
    /\ qPc = "returned"
    /\ qCoord.system = "named"
    /\ qCoord.name = "B"
    /\ DOMAIN qNamed = {"A"}
    /\ qResult = <<25000, 25000>>

(***************************************************************************)
(* Foreach loops: the active context around the iterations.                *)
(***************************************************************************)
\* the positions on the stack of the loops being expanded
LoopFrames == {p \in 1..Len(stack) : stack[p].kind \in {"foreach", "expand"}}

\* the context that was active when the loop at position p was called: the
\* root context, or the child of the iteration of the loop around it
PreLoopContext(p) == 1 + Cardinality({q \in LoopFrames : q < p})

\* the loop on top is between two iterations, before its first or after its
\* last
BetweenIterations ==
    cPc = "run" /\ Top.kind \in {"foreach", "expand"} /\ Top.phase = "next"

\* C15: after expand has returned the converter's active context and
\* evaluator are the ones that were active before the call, whatever the
\* number of values and whether or not the body holds loops; between two
\* iterations the active context is the pre-loop context again, and the
\* child context of every iteration has the pre-loop context as its parent.
C15_ContextRestoration ==
    /\ []((cPc = "returned" /\ entry = "expand") =>
            (context = 1 /\ evaluator = 1))
    /\ [](BetweenIterations =>
            /\ context = PreLoopContext(Len(stack))
            /\ evaluator = PreLoopContext(Len(stack)))
    /\ [][BeginIteration =>
            /\ context' # context
            /\ evaluator' = context'
            /\ contexts'[context'].parent = PreLoopContext(Len(stack))]_vars

\* expand has returned from a loop of two values whose body held a loop
C15_Witness ==
    /\ cPc = "returned"
    /\ entry = "expand"
    /\ Len(finished.loop.values) = 2
    /\ \E j \in DOMAIN finished.loop.body : finished.loop.body[j] = InnerLoop
    /\ context = 1
    /\ evaluator = 1

(***************************************************************************)
(* The document: arrow markers.                                            *)
(***************************************************************************)
\* the elements of a piece of SVG, those inside groups included
RECURSIVE AllElements(_)
AllElements(atoms) ==
    IF atoms = <<>> THEN {}
    ELSE LET a == Head(atoms)
         IN  {a} \cup (IF a.el \in {"g", "svg"} THEN AllElements(a.content) ELSE {})
                 \cup AllElements(Tail(atoms))

\* a draw statement among the statements, or inside a scope, a layer or a
\* loop body among them, has an arrow option
RECURSIVE CarriesArrow(_)
CarriesArrow(statements) ==
    \E i \in DOMAIN statements :
        LET stmt == statements[i]
        IN  IF stmt.type = "DrawStatement" THEN "arrow" \in DOMAIN stmt.options
            ELSE IF stmt.type \in {"Scope", "Layer"} THEN CarriesArrow(stmt.statements)
            ELSE IF stmt.type = "ForeachLoop" THEN CarriesArrow(stmt.body)
            ELSE FALSE

RefersToMarker(element) ==
    element.el = "path" /\ (element.marker_start \/ element.marker_end)

\* C16: a converted document in which a path element refers to a marker
\* (marker-start or marker-end) holds the defs block that defines the
\* markers, wherever the draw statement stands (top level, scope, layer,
\* loop body); a document none of whose statements carries an arrow holds
\* no defs block.
C16_ArrowMarkersDefined ==
    (cPc = "returned" /\ entry = "convert") =>
        LET elements == AllElements(cResult)
        IN  /\ (\E e \in elements : RefersToMarker(e)) =>
                    (\E e \in elements : e.el = "defs")
            /\ ~CarriesArrow(ast) => ~(\E e \in elements : e.el = "defs")

(***************************************************************************)
(* The document: inline coordinate labels.                                 *)
(***************************************************************************)
\* the segments of a path that carry the inline label name
LabelledAs(path, name) ==
    {k \in DOMAIN path :
        /\ "coordinate_name" \in DOMAIN path[k].options
        /\ path[k].options["coordinate_name"] = name}

\* the names that label a point of the path
LabelsOf(path) ==
    {path[k].options["coordinate_name"] :
        k \in {j \in DOMAIN path : "coordinate_name" \in DOMAIN path[j].options}}

\* the render-space point of the last point of the path labelled name (the
\* labelled points are literal cartesian coordinates)
LabelPosition(path, name) ==
    LET k == CHOOSE j \in LabelledAs(path, name) :
                    \A other \in LabelledAs(path, name) : other <= j
    IN  RenderPoint(path[k].destination.values[1].n, path[k].destination.values[2].n)

\* C17: when a draw statement is visited whose path has a point with an
\* inline coordinate label A, the table of named coordinates holds the
\* render-space position of that point under A afterwards (the last such
\* point, if the name labels several), and a segment of the same path that
\* goes to (A) is drawn to that position.
C17_InlineLabelsRegistered ==
    [][VisitDrawStatement =>
        \A name \in LabelsOf(Current.path) :
            /\ name \in DOMAIN named_coordinates'
            /\ named_coordinates'[name] = LabelPosition(Current.path, name)
            /\ \A k \in DOMAIN Current.path :
                    Current.path[k].destination = Named(name) =>
                        LET elements == stack'[Len(stack)].elements
                            drawn == elements[Len(elements)].atoms[1]
                        IN  drawn.d[k].a = LabelPosition(Current.path, name)]_vars

(***************************************************************************)
(* Parsed paths: explicit Bezier connectors.                               *)
(***************************************************************************)
\* the child is a connector ".. controls (c1) and (c2) .." or
\* ".. controls (c) .."
IsControlsConnector(child) ==
    /\ child.k = "path_connector"
    /\ \E i \in DOMAIN child.items : child.items[i].k = "dict"

\* the control points the connector carries
ControlPoints(child) ==
    LET i == CHOOSE j \in DOMAIN child.items : child.items[j].k = "dict"
    IN  child.items[i].op.points

\* the child is a coordinate, with or without a label
IsPoint(child) ==
    child.k = "Coordinate" \/ (child.k = "dict" /\ child.type = "element")

\* the index of the segment (and of the command) made for the k-th child:
\* every child but a connector makes one
SegmentOfChild(k) ==
    Cardinality({j \in 1..k : tChildren[j].k # "path_connector"})

\* C18: in a path "A .. controls (c1) and (c2) .. B" (or with one control
\* point) the segment to B has the structured controls operation with the
\* control points, and is drawn as a cubic C command (two control points)
\* or a quadratic Q command (one), not as a move or a line.
C18_BezierSurvives ==
    tPc = "done" =>
        \A k \in 1..(Len(tChildren) - 1) :
            (IsControlsConnector(tChildren[k]) /\ IsPoint(tChildren[k + 1])) =>
                LET segment == tSegments[SegmentOfChild(k + 1)]
                    command == tData[SegmentOfChild(k + 1)]
                    points == ControlPoints(tChildren[k])
                IN  /\ segment.destination = tChildren[k + 1].coord
                    /\ segment.operation = ControlsOp(points)
                    /\ command.c = (IF Len(points) = 2 THEN "C" ELSE "Q")

(***************************************************************************)
(* Foreach loops: an evaluate clause that cannot be evaluated.             *)
(***************************************************************************)
\* the statement returns a fragment when it is visited
RECURSIVE Renders(_)
Renders(stmt) ==
    IF stmt.type \in {"DrawStatement", "Node"} THEN TRUE
    ELSE IF stmt.type = "ForeachLoop"
    THEN stmt.values # <<>> /\ \E t \in DOMAIN stmt.body : Renders(stmt.body[t])
    ELSE IF stmt.type = "Scope"
    THEN \E t \in DOMAIN stmt.statements : Renders(stmt.statements[t])
    ELSE FALSE

\* <<iteration, statement>> of the fragments of n iterations over body, when
\* every statement of every iteration is visited
ExpectedTrace(n, body) ==
    LET rendering == {j \in DOMAIN body : Renders(body[j])}
        m == Cardinality(rendering)
        Nth(r) == CHOOSE j \in rendering : Cardinality({x \in rendering : x <= j}) = r
    IN  [e \in 1..(n * m) |-> <<((e - 1) \div m) + 1, Nth(((e - 1) % m) + 1)>>]

\* the expression of the clause cannot be evaluated where the first loop
\* variable is bound to value: it refers to a variable that is not set, or
\* multiplies a loop variable that is not a number
ClauseFails(clause, value) ==
    /\ clause # None
    /\ \/ clause.expression = Ref("undefined")
       \/ clause.expression = Times("i", 2) /\ value.k # "pynum"

\* C19: when the expression of the evaluate clause cannot be evaluated in an
\* iteration, the target is not bound in the context of that iteration, the
\* iteration goes on, and the loop, once completed, has a fragment of every
\* rendering body statement of every iteration, as the same loop without
\* the clause has.
C19_EvaluateClauseSwallowed ==
    /\ [][BeginIteration =>
            LET frame == stack'[Len(stack)]
                clause == frame.loop.evaluate_clause
            IN  ClauseFails(clause, frame.bound[Len(frame.bound)]) =>
                    /\ clause.target \notin DOMAIN contexts'[context'].variables
                    /\ cPc' = "run"
                    /\ frame.phase = "body"]_vars
    /\ []((finished # None /\ cPc # "idle") =>
            LET loop == finished.loop
            IN  (\/ loop.evaluate_clause = None
                 \/ loop.evaluate_clause.expression = Ref("undefined")) =>
                    /\ finished.trace = ExpectedTrace(Len(loop.values), loop.body)
                    /\ Len(finished.elements) = Len(finished.trace))

\* a loop of two values whose clause failed in both iterations has completed
\* with a fragment of each
C19_Witness ==
    /\ cPc = "returned"
    /\ entry = "expand"
    /\ finished.loop.evaluate_clause = EvaluateClause("d", Ref("undefined"))
    /\ Len(finished.loop.values) = 2
    /\ finished.loop.body = <<DrawI>>
    /\ Len(cResult) = 2

(***************************************************************************)
(* The math evaluator: log and ln.                                         *)
(***************************************************************************)
\* the expression is f(x) for the text x of a positive whole number
IsCallOf(expr, name) ==
    /\ StartsWith(expr, 1, name \o <<"(">>)
    /\ expr[Len(expr)] = ")"
    /\ SubSeq(expr, Len(name) + 2, Len(expr) - 1) \in NumberTexts

ArgumentOf(expr, name) == Value(NumberOfText(SubSeq(expr, Len(name) + 2, Len(expr) - 1))).v

\* C20: for every positive x, evaluate("log(x)") returns the base-10
\* logarithm of x (math.log10) and evaluate("ln(x)") returns the natural
\* logarithm of x (math.log); neither raises.
C20_LogAndLn ==
    ePc \notin {"idle", "call"} =>
        /\ IsCallOf(eExpr, <<"l", "o", "g">>) =>
                /\ ePc = "returned"
                /\ eResult = Apply("math.log10", ArgumentOf(eExpr, <<"l", "o", "g">>))
        /\ IsCallOf(eExpr, <<"l", "n">>) =>
                /\ ePc = "returned"
                /\ eResult = Apply("math.log", ArgumentOf(eExpr, <<"l", "n">>))

(***************************************************************************)
(* The math evaluator: trigonometric functions take degrees.               *)
(***************************************************************************)
\* every parenthesis of the text is closed within it, and none before it opens
RECURSIVE Balanced(_, _, _)
Balanced(text, i, depth) ==
    IF i > Len(text) THEN depth = 0
    ELSE IF text[i] = "(" THEN Balanced(text, i + 1, depth + 1)
    ELSE IF text[i] = ")" THEN depth > 0 /\ Balanced(text, i + 1, depth - 1)
    ELSE Balanced(text, i + 1, depth)

\* the expression is name(argument) as a whole
IsWholeCall(expr, name) ==
    /\ StartsWith(expr, 1, name \o <<"(">>)
    /\ expr[Len(expr)] = ")"
    /\ Len(expr) > Len(name) + 2
    /\ Balanced(SubSeq(expr, Len(name) + 2, Len(expr) - 1), 1, 0)

WholeArgument(expr, name) == SubSeq(expr, Len(name) + 2, Len(expr) - 1)

\* the trig functions and the function of Python each stands for
TrigHost ==
    [name \in {<<"s", "i", "n">>, <<"c", "o", "s">>, <<"t", "a", "n">>} |->
        IF name = <<"s", "i", "n">> THEN "math.sin"
        ELSE IF name = <<"c", "o", "s">> THEN "math.cos" ELSE "math.tan"]

\* C21: for every call f(argument) of sin, cos or tan whose argument has a
\* value, evaluate returns f applied to the radians of the value of the
\* whole argument, also when the argument holds parentheses or is itself a
\* trig call (whose own value is the one evaluate gives that call).
C21_TrigTakesDegrees ==
    \A name \in DOMAIN TrigHost :
        (/\ ePc \notin {"idle", "call"}
         /\ IsWholeCall(eExpr, name)
         /\ EvaluateText(WholeArgument(eExpr, name), eVariables).ok) =>
            /\ ePc = "returned"
            /\ eResult = Apply(TrigHost[name],
                               Apply("math.radians",
                                     EvaluateText(WholeArgument(eExpr, name), eVariables).v))

(***************************************************************************)
(* Evaluation contexts: lookup and writes.                                 *)
(***************************************************************************)
\* the context c and its ancestors, nearest first
RECURSIVE ParentChain(_)
ParentChain(c) == IF c = 0 THEN <<>> ELSE <<c>> \o ParentChain(contexts[c].parent)

\* the binding of name in the first context of the chain that holds it
NearestBinding(chain, name) ==
    LET holders == {i \in DOMAIN chain : name \in DOMAIN contexts[chain[i]].variables}
    IN  IF holders = {} THEN None
        ELSE contexts[chain[CHOOSE i \in holders : \A j \in holders : i <= j]].variables[name]

\* every name some context holds, and one that none does
KnownNames == UNION {DOMAIN contexts[c].variables : c \in DOMAIN contexts} \cup {"undefined"}

\* get_variable on every context gives the nearest binding of its chain
NearestBindingRead ==
    \A c \in DOMAIN contexts : \A name \in KnownNames :
        GetVariable(contexts, c, name) = NearestBinding(ParentChain(c), name)

\* a step changes the variables of no context but the active one, on which
\* set_variable was called (a child it creates is new, a child that is left
\* is dropped)
OnlyOwnMapWritten ==
    \A a \in DOMAIN contexts \cap DOMAIN contexts' :
        /\ contexts'[a].parent = contexts[a].parent
        /\ contexts'[a].variables # contexts[a].variables => a = context /\ context' = context

\* C22: get_variable returns the binding of the nearest context on the
\* parent chain that holds the name (None when none does, so a name set only
\* in a child is not visible from its parent), and a set_variable changes
\* only the variable map of the context it is called on: every other
\* context, every ancestor among them, keeps its variables.
C22_ContextScoping == [](NearestBindingRead) /\ [][OnlyOwnMapWritten]_vars

\* inside an iteration the child shadows the parent's outer with another
\* value and holds the loop variable, which the parent does not see
C22_Witness ==
    /\ cPc = "run"
    /\ context # 0
    /\ contexts[context].parent # 0
    /\ LET parent == contexts[context].parent
       IN  /\ "outer" \in DOMAIN contexts[context].variables
           /\ "outer" \in DOMAIN contexts[parent].variables
           /\ contexts[context].variables["outer"] # contexts[parent].variables["outer"]
           /\ GetVariable(contexts, context, "outer") = contexts[context].variables["outer"]
           /\ "i" \in DOMAIN contexts[context].variables
           /\ GetVariable(contexts, parent, "i") = None

(***************************************************************************)
(* The path walk where the cursor is missing.                              *)
(***************************************************************************)
\* the step of render_path over a plain operation with a destination draws
\* what the claim says for a missing cursor and for the orthogonal
\* connectors
DegradedStep ==
    (/\ pPc = "walk"
     /\ pWalker = "render_path"
     /\ pIndex <= Len(pSegments)
     /\ ~pSegments[pIndex].operation.dict
     /\ pSegments[pIndex].destination # None) =>
        LET op == pSegments[pIndex].operation.op
            point == Resolve(PathResolver, pSegments[pIndex].destination, pCurrent)
        IN  /\ (pCurrent = <<>> /\ op \in {"rectangle", "grid"}) =>
                    pData' = pData
            /\ (pCurrent = <<>> /\ op \in {"..", "|-", "-|"}) =>
                    pData' = Append(pData, Cmd("L", point))
            /\ (pCurrent # <<>> /\ op = "|-") =>
                    pData' = pData \o <<Cmd("L", <<point[1], pCurrent[2]>>), Cmd("L", point)>>
            /\ (pCurrent # <<>> /\ op = "-|") =>
                    pData' = pData \o <<Cmd("L", <<pCurrent[1], point[2]>>), Cmd("L", point)>>

\* C23: render_path degrades without raising where the cursor is missing:
\* rectangle and grid emit nothing, ".." and the orthogonal connectors "|-"
\* and "-|" emit the single line to the destination; with a cursor "|-"
\* emits L (dest.x, cursor.y) then L dest and "-|" emits L (cursor.x, dest.y)
\* then L dest; the walk always goes on to its return.
C23_MissingCursorDegrades ==
    /\ [][DegradedStep]_vars
    /\ [](pPc = "walk" => ENABLED <<NextPath>>_vars)

\* render_path after a start at +(1,0), which leaves no cursor, a rectangle
\* that drew nothing and a ".." that drew its single line
C23_Witness ==
    /\ pWalker = "render_path"
    /\ pPc = "returned"
    /\ Len(pSegments) = 3
    /\ pSegments[2].operation = Op("rectangle")
    /\ pSegments[3].operation = Op("..")
    /\ pCurrent = <<>>
    /\ Len(pData) = 2
    /\ pData[2].c = "L"

(***************************************************************************)
(* Circles in the path walk.                                               *)
(***************************************************************************)
\* the step over a structured circle draws a move and two arcs around the
\* resolved destination if there is one, else the cursor, else the
\* transformed origin, and leaves the cursor on that centre
CircleStep ==
    (/\ pPc = "walk"
     /\ pIndex <= Len(pSegments)
     /\ pSegments[pIndex].operation.dict
     /\ pSegments[pIndex].operation.type = "circle") =>
        LET dest == pSegments[pIndex].destination
            center == IF dest # None THEN Resolve(PathResolver, dest, pCurrent)
                      ELSE IF pCurrent # <<>> THEN pCurrent
                      ELSE TikzToSvg(0, 0)
            radius == EvalValue(PathResolver, pSegments[pIndex].operation.radius) * scale
        IN  /\ pData' = pData \o
                    <<Cmd("M", <<center[1] - radius, center[2]>>),
                      Cmd("A", <<radius, radius, 0, 1, 0, center[1] + radius, center[2]>>),
                      Cmd("A", <<radius, radius, 0, 1, 0, center[1] - radius, center[2]>>)>>
            /\ pCurrent' = center

\* C24: the centre of a structured circle segment is the resolved
\* destination when a destination is given, whether or not a cursor exists,
\* otherwise the cursor, otherwise the transformed origin; the segment emits
\* a move and two arcs, and the cursor afterwards is the centre.
C24_CircleCentre == [][CircleStep]_vars

(***************************************************************************)
(* The two formats of an arc specification.                                *)
(***************************************************************************)
\* the specification with the same angles and radius in the other format
OtherFormat(spec) ==
    [spec EXCEPT !.format = IF spec.format = "angles" THEN "options" ELSE "angles"]

\* the flags the angles ask for: large-arc and sweep
ArcFlags(spec) ==
    LET start_angle == EvalValue(PathResolver, spec.start_angle)
        end_angle == EvalValue(PathResolver, spec.end_angle)
    IN  << IF end_angle - start_angle > 180 \/ start_angle - end_angle > 180 THEN 1 ELSE 0,
           IF end_angle > start_angle THEN 1 ELSE 0 >>

\* the step over an arc that has its specification and a cursor emits one
\* command, the same for either format, with the flags the angles ask for
ArcStep ==
    (/\ pPc = "walk"
     /\ pIndex <= Len(pSegments)
     /\ pSegments[pIndex].operation.dict
     /\ pSegments[pIndex].operation.type = "arc"
     /\ pSegments[pIndex].operation.spec # None
     /\ pCurrent # <<>>) =>
        LET spec == pSegments[pIndex].operation.spec
            arc == RenderArc(PathResolver, spec, pCurrent)
            other == RenderArc(PathResolver, OtherFormat(spec), pCurrent)
        IN  /\ pData' = pData \o arc
            /\ Len(arc) = 1
            /\ arc = other
            /\ <<arc[1].a[4], arc[1].a[5]>> = ArcFlags(spec)

\* C25: the two arc formats have the same semantics: for the same cursor,
\* start angle, end angle and radius the angles form and the options form
\* emit the same arc command, with the same end point, a large-arc flag that
\* is 1 exactly when |end - start| exceeds 180 degrees and a sweep flag set
\* by the sign of (end - start).
C25_ArcFormatsAgree == [][ArcStep]_vars

(***************************************************************************)
(* The segments path builds from its children.                             *)
(***************************************************************************)
\* the operation a connector stands for: the controls of its clause if it
\* has one, its token if it has one, "--" for an empty connector
ConnectorOperation(items) ==
    IF \E i \in DOMAIN items : items[i].k = "dict"
    THEN (items[CHOOSE i \in DOMAIN items : items[i].k = "dict"]).op
    ELSE IF items = <<>> THEN Op("--")
    ELSE Op(items[1].value)

\* C26: the Path built from children with at least one coordinate has
\* exactly one start segment, the segment of the first coordinate, before
\* every other segment with a coordinate; each later coordinate gets the
\* connector that immediately preceded it, or move when none did, so no
\* connector serves two coordinates.
C26_PathConstruction ==
    tPc \in {"convert", "done"} =>
        /\ Len(tSegments) = SegmentOfChild(Len(tChildren))
        /\ Cardinality({k \in DOMAIN tSegments : tSegments[k].operation = Op("start")}) = 1
        /\ \A i \in DOMAIN tChildren :
              IsPoint(tChildren[i]) =>
                /\ tSegments[SegmentOfChild(i)].destination = tChildren[i].coord
                /\ tSegments[SegmentOfChild(i)].operation =
                      IF \A j \in 1..(i - 1) : ~IsPoint(tChildren[j]) THEN Op("start")
                      ELSE IF tChildren[i - 1].k = "path_connector"
                      THEN ConnectorOperation(tChildren[i - 1].items)
                      ELSE Op("move")

(***************************************************************************)
(* Loops whose body raises.                                                *)
(***************************************************************************)
\* the iterations in progress: the loop calls on the stack that are inside
\* their try block
ActiveIterations ==
    {k \in DOMAIN stack : stack[k].kind \in {"foreach", "expand"} /\ stack[k].phase = "body"}

\* C27: when the visit of a body statement raises in an iteration of
\* ForeachLoopExpander.expand or SVGConverter.visit_foreach_loop, every loop
\* the exception leaves has reset the converter's context and evaluator to
\* the parent of its iteration: while the exception travels the active
\* context is the child of the innermost iteration still in progress and
\* each iteration in progress holds the one below as its parent; once the
\* exception has left the outermost call the context and evaluator are the
\* ones from before the loop and no child context is left.
C27_RestoredOnException ==
    /\ cPc = "unwinding" =>
          /\ context = 1 + Cardinality(ActiveIterations)
          /\ evaluator = context
          /\ Len(contexts) = context
          /\ \A k \in ActiveIterations :
                /\ stack[k].parent_context = Cardinality({l \in ActiveIterations : l <= k})
                /\ stack[k].parent_evaluator = stack[k].parent_context
    /\ cPc = "raised" =>
          /\ context = 1
          /\ evaluator = 1
          /\ Len(contexts) = 1

\* the exception of a statement in an inner loop has left the inner loop
\* and is about to leave the iteration of the outer one: the context is the
\* outer iteration's again
C27_Witness ==
    /\ cPc = "unwinding"
    /\ Top.kind \in {"foreach", "expand"}
    /\ Top.phase = "body"
    /\ Current.type = "ForeachLoop"
    /\ Top.parent_context = 1
    /\ context = 2
    /\ evaluator = 2

(***************************************************************************)
(* Macro names that begin a longer control sequence.                       *)
(***************************************************************************)
\* every \name of a macro of the table that occurs in the text goes on with
\* a letter: it is the beginning of a longer control sequence
OnlyLongerControlSequences(macros, text) ==
    \A k \in DOMAIN macros : \A i \in DOMAIN text :
        OccursAt(text, i, <<BS>> \o macros[k].name) =>
            /\ i + Len(macros[k].name) + 1 <= Len(text)
            /\ text[i + Len(macros[k].name) + 1] \in {"a", "b", "d"}

\* C28: the expansion replaces only complete occurrences of \name: a text
\* in which the name of a macro occurs only as the proper prefix of longer
\* control sequences (\aa for a macro a, as \Large for a macro L) is
\* returned as it was given.
C28_CompleteOccurrencesOnly ==
    (mPc = "returned" /\ OnlyLongerControlSequences(mMacros, mInput)) =>
        mResult = mInput

(***************************************************************************)
(* The cursor after an arc.                                                *)
(***************************************************************************)
\* C29: after the step over an arc segment that emits a command the cursor
\* is the end point of that command, so that the next segment starts from
\* the end of the arc.
C29_CursorAfterArc ==
    [][(/\ pPc = "walk"
        /\ pIndex <= Len(pSegments)
        /\ pSegments[pIndex].operation.dict
        /\ pSegments[pIndex].operation.type = "arc"
        /\ Len(pData') = Len(pData) + 1) =>
            pCurrent' = <<pData'[Len(pData')].a[6], pData'[Len(pData')].a[7]>>]_vars

(***************************************************************************)
(* The values the loops bind.                                              *)
(***************************************************************************)
\* C30: the values of a loop are range-expanded before they are bound: no
\* variable of a context is ever bound to an unexpanded range descriptor,
\* also for a range whose end is not a numeric literal, {0,...,\n}.
C30_ValuesRangeExpanded ==
    \A c \in DOMAIN contexts : \A name \in DOMAIN contexts[c].variables :
        contexts[c].variables[name].k # "range"

=============================================================================
